---- MODULE Spec2Model ----
(***************************************************************************)
(* The parts lifecycle planner: Sequencer (craft_parts/sequencer.py) over  *)
(* the StateManager (craft_parts/state_manager/manager.py).                *)
(*                                                                         *)
(* One behaviour is one process: the StateManager is constructed from the  *)
(* persisted state files, then plan() is called any number of times while  *)
(* the upstream sources of the parts may change.                           *)
(***************************************************************************)
EXTENDS Integers, Sequences, FiniteSets, TLC

VARIABLES
    part_list,        \* Sequencer._part_list: the parts, sorted by sort_parts
    after,            \* Part.dependencies of each part (the "after" key)
    properties,       \* the current properties of each part
    project_options,  \* ProjectInfo.project_options
    source,           \* what the source handler of each part does on check()
    persisted,        \* the state files under <work>/parts/<part>/state/
    state,            \* _EphemeralStates._state
    serial_gen,       \* _EphemeralStates._serial_gen: the last serial issued
    target,           \* target_step of the last plan() call (0: none yet)
    names,            \* part_names of the last plan() call
    repeated,         \* the last plan() call had the arguments of the one before
    before,           \* the StateManager when the last call started
    actions,          \* Sequencer._actions: the plan last returned
    log,              \* one record per _add_step_actions call of that plan
    op,               \* the last call: its name, its arguments and its result
    created,          \* the serials of the wrappers this process created, in order
    cleans,           \* the number of clean_part() calls made so far
    dirs,             \* the work directories that exist: parts, stage, prime
    handler,          \* Executor._handler: the parts that have a PartHandler
    calls,            \* the calls the last Executor call made, in order
    base_packages,    \* LifecycleManager._base_packages is not empty
    call_fifo,        \* run_scriptlet: the request lines written and not read
    feedback_fifo,    \* run_scriptlet: the feedback lines written and not read
    process,          \* run_scriptlet: the subprocess, running or exited
    pc,               \* run_scriptlet: where the polling loop is
    function_call,    \* run_scriptlet: what call_fifo.read() returned last
    status,           \* run_scriptlet: what process.poll() returned last
    error,            \* run_scriptlet: the exception raised in the loop
    builtins,         \* the built-ins _handle_control_api has run, in order
    requests,         \* the number of request lines the scriptlet has written
    answers,          \* every feedback line written, and the requests handled
                      \* before it
    hooks             \* callbacks: the hooks registered, for each kind of hook

vars == <<part_list, after, properties, project_options, source, persisted,
          state, serial_gen, target, names, repeated, before, actions, log,
          op, created, cleans, dirs, handler, calls, base_packages,
          call_fifo, feedback_fifo, process, pc, function_call, status,
          error, builtins, requests, answers, hooks>>

\* the state of the Executor and of the work directories
executor_vars == <<dirs, handler, calls, base_packages>>

\* the state of a run_scriptlet call
runner_vars == <<call_fifo, feedback_fifo, process, pc, function_call, status,
                 error, builtins, requests, answers>>

----------------------------------------------------------------------------
(* Bounds of the model *)

\* a part spec has at most MaxKeys keys
MaxKeys == 3
\* a scriptlet writes at most MaxRequests request lines
MaxRequests == 2
\* the feedback FIFO holds at most FifoCapacity lines
FifoCapacity == 1
\* persisted state files carry a timestamp in 1..MaxTime
MaxTime == 2
\* plan() is called while fewer than MaxSerial serials have been issued
MaxSerial == 1
\* the methods of a StateManager that create a wrapper are called while it
\* has created fewer than MaxWrites
MaxWrites == 1
\* clean_part() is called at most MaxCleans times
MaxCleans == 1

----------------------------------------------------------------------------
(* Steps (craft_parts/steps.py) *)

PULL == 1
BUILD == 2
STAGE == 3
PRIME == 4

Steps == {PULL, BUILD, STAGE, PRIME}

\* the steps before s, in order
previous_steps(s) == [i \in 1..(s - 1) |-> i]

\* the steps after s, in order
next_steps(s) == [i \in 1..(PRIME - s) |-> s + i]

\* the step a dependency must have reached before s runs (0: none)
dependency_prerequisite_step(s) == IF s \in {STAGE, PRIME} THEN STAGE ELSE 0

Range(f) == {f[i] : i \in DOMAIN f}

----------------------------------------------------------------------------
(* Parts (craft_parts/parts.py) *)

\* every part name a project may use, in name order
PartNames == <<"A", "B", "C">>

NameIndex(n) == CHOOSE i \in DOMAIN PartNames : PartNames[i] = n

RECURSIVE part_dependencies_of(_, _, _)
part_dependencies_of(deps, name, recursive) ==
    IF recursive
    THEN deps[name] \cup
         UNION {part_dependencies_of(deps, d, TRUE) : d \in deps[name]}
    ELSE deps[name]

\* the parts the named part depends on, directly or transitively
part_dependencies(name, recursive) == part_dependencies_of(after, name, recursive)

\* topological sort, ties broken by name
RECURSIVE sort_parts_from(_, _, _)
sort_parts_from(deps, todo, done) ==
    IF todo = {} THEN done
    ELSE LET ready == {p \in todo : deps[p] \cap todo = {}}
             nxt == CHOOSE p \in ready :
                        \A q \in ready : NameIndex(p) <= NameIndex(q)
         IN sort_parts_from(deps, todo \ {nxt}, Append(done, nxt))

sort_parts(deps) == sort_parts_from(deps, DOMAIN deps, <<>>)

\* the named parts in part list order, all parts when none is named
part_list_by_name(part_names, plist) ==
    IF part_names # {}
    THEN SelectSeq(plist, LAMBDA p : p \in part_names)
    ELSE plist

----------------------------------------------------------------------------
(* State records (craft_parts/state_manager/states) *)

\* one property key per step: key k is of interest to step k only
properties_of_interest(step) == {step}

\* the project option (target_arch) is of interest to PULL
project_options_of_interest(step) == IF step = PULL THEN {"target_arch"} ELSE {}

PartState(props, opts) == [part_properties |-> props, project_options |-> opts]

diff_properties_of_interest(st, step, other) ==
    {k \in properties_of_interest(step) : st.part_properties[k] # other[k]}

diff_project_options_of_interest(st, step, other) ==
    {k \in project_options_of_interest(step) : st.project_options # other}

----------------------------------------------------------------------------
(* _StateWrapper: timestamp 0 and serial 0 stand for "not provided" *)

StateWrapper(st, timestamp, serial, updated) ==
    [state |-> st, timestamp |-> timestamp, serial |-> serial,
     updated |-> updated]

\* _StateWrapper.__init__ raises InternalError: the condition of its if
wrapper_init_raises(timestamp, serial) ==
    (timestamp # 0 /\ serial # 0) \/ ~(timestamp # 0 \/ serial # 0)

\* _StateWrapper(state, timestamp, serial, updated): the set that holds the
\* wrapper, empty when the constructor raises
wrapper_init(st, timestamp, serial, updated) ==
    IF wrapper_init_raises(timestamp, serial) THEN {}
    ELSE {StateWrapper(st, timestamp, serial, updated)}

\* variant: a wrapper without a timestamp is never newer than one with it
is_newer_than_timestamped_only(self, other) ==
    IF self.timestamp # 0 /\ other.timestamp # 0
    THEN self.timestamp > other.timestamp
    ELSE IF self.timestamp # 0 /\ other.timestamp = 0 THEN FALSE
    ELSE IF self.timestamp = 0 /\ other.timestamp # 0 THEN FALSE
    ELSE self.serial > other.serial

is_newer_than(self, other) ==
    IF self.timestamp # 0 /\ other.timestamp # 0
    THEN self.timestamp > other.timestamp
    ELSE IF self.timestamp # 0 /\ other.timestamp = 0 THEN FALSE
    ELSE IF self.timestamp = 0 /\ other.timestamp # 0 THEN TRUE
    ELSE self.serial > other.serial

----------------------------------------------------------------------------
(* _EphemeralStates: a record es with the fields state and serial_gen;     *)
(* es.state[p] is a function from the steps of p that have a wrapper       *)

Put(f, k, v) == [x \in (DOMAIN f) \cup {k} |-> IF x = k THEN v ELSE f[x]]
Drop(f, k) == [x \in (DOMAIN f) \ {k} |-> f[x]]

\* variant: the new wrapper is given a timestamp as well as a serial
new_ephemeral_state_timestamped(es, st, updated) ==
    StateWrapper(st, 1, es.serial_gen + 1, updated)

new_ephemeral_state(es, st, updated) ==
    StateWrapper(st, 0, es.serial_gen + 1, updated)

es_test(es, part_name, step) == step \in DOMAIN es.state[part_name]

es_set(es, part_name, step, stw) ==
    [es EXCEPT !.state[part_name] = Put(@, step, stw)]

es_remove(es, part_name, step) ==
    [es EXCEPT !.state[part_name] = Drop(@, step)]

es_get(es, part_name, step) == es.state[part_name][step]

update_timestamp(es, part_name, step) ==
    IF es_test(es, part_name, step)
    THEN [es_set(es, part_name, step,
                 new_ephemeral_state(es, es_get(es, part_name, step).state, FALSE))
            EXCEPT !.serial_gen = @ + 1]
    ELSE es

set_updated(es, part_name, step) ==
    IF es_test(es, part_name, step)
    THEN [es_set(es, part_name, step,
                 new_ephemeral_state(es, es_get(es, part_name, step).state, TRUE))
            EXCEPT !.serial_gen = @ + 1]
    ELSE es

was_updated(es, part_name, step) ==
    IF es_test(es, part_name, step)
    THEN es_get(es, part_name, step).updated
    ELSE FALSE

----------------------------------------------------------------------------
(* Reports (state_manager/dirty_report.py, outdated_report.py).            *)
(* The report that lists nothing stands for "no report" (None).            *)

DirtyReport(props, opts, deps) ==
    [dirty_properties |-> props, dirty_project_options |-> opts,
     changed_dependencies |-> deps]

NoDirtyReport == DirtyReport({}, {}, {})

Dependency(part_name, step) == <<part_name, step>>

OutdatedReport(source_updated, previous_step_modified) ==
    [source_updated |-> source_updated,
     previous_step_modified |-> previous_step_modified]

NoOutdatedReport == OutdatedReport(FALSE, 0)

----------------------------------------------------------------------------
(* StateManager: sm is a record with the fields state and serial_gen       *)

\* StateManager.__init__: one timestamped wrapper per state file
load_state(files) ==
    [p \in DOMAIN files |->
        [s \in DOMAIN files[p] |->
            StateWrapper(files[p][s].state, files[p][s].timestamp, 0, FALSE)]]

set_state(sm, part, step, st) ==
    [es_set(sm, part, step, new_ephemeral_state(sm, st, FALSE))
        EXCEPT !.serial_gen = @ + 1]

update_state_timestamp(sm, part, step) == update_timestamp(sm, part, step)

has_step_run(sm, part, step) == es_test(sm, part, step)

RECURSIVE clean_steps(_, _, _)
clean_steps(sm, part, todo) ==
    IF todo = <<>> THEN sm
    ELSE clean_steps(es_remove(sm, part, Head(todo)), part, Tail(todo))

\* variant: only the step itself is cleaned
clean_part_step_only(sm, part, step) == clean_steps(sm, part, <<step>>)

\* variant: the earlier steps are cleaned as well
clean_part_every_step(sm, part, step) ==
    clean_steps(sm, part, previous_steps(step) \o <<step>> \o next_steps(step))

clean_part(sm, part, step) == clean_steps(sm, part, <<step>> \o next_steps(step))

mark_step_updated(sm, part, step) == set_updated(sm, part, step)

dirty_report_for_part(sm, part, step) ==
    IF es_test(sm, part, step)
    THEN LET st == es_get(sm, part, step).state
             props == diff_properties_of_interest(st, step, properties[part])
             options == diff_project_options_of_interest(st, step, project_options)
         IN IF props # {} \/ options # {}
            THEN DirtyReport(props, options, {})
            ELSE NoDirtyReport
    ELSE NoDirtyReport

\* the first earlier step, from the latest down, whose wrapper is newer
RECURSIVE newer_previous_step(_, _, _, _)
newer_previous_step(sm, part, step, prev) ==
    IF prev = 0 THEN NoOutdatedReport
    ELSE IF es_test(sm, part, prev)
            /\ is_newer_than(es_get(sm, part, prev), es_get(sm, part, step))
         THEN OutdatedReport(FALSE, prev)
         ELSE newer_previous_step(sm, part, step, prev - 1)

\* variant: a source handler that cannot check counts as changed
outdated_report_for_part_unsupported_changed(sm, part, step) ==
    IF ~es_test(sm, part, step) THEN NoOutdatedReport
    ELSE IF step = PULL
         THEN IF source[part] \in {"changed", "unsupported"}
              THEN OutdatedReport(TRUE, 0)
              ELSE NoOutdatedReport
         ELSE newer_previous_step(sm, part, step, step - 1)

outdated_report_for_part(sm, part, step) ==
    IF ~es_test(sm, part, step) THEN NoOutdatedReport
    ELSE IF step = PULL
         THEN \* no handler, or check() raises SourceUpdateUnsupported,
              \* or check() returns False: no report
              IF source[part] = "changed"
              THEN OutdatedReport(TRUE, 0)
              ELSE NoOutdatedReport
         ELSE newer_previous_step(sm, part, step, step - 1)

\* variant: the updated mark of the wrapper is not consulted
outdated_report_ignoring_updated(sm, part, step) ==
    outdated_report_for_part(sm, part, step)

outdated_report(sm, part, step) ==
    IF was_updated(sm, part, step) THEN NoOutdatedReport
    ELSE outdated_report_for_part(sm, part, step)

\* dirty_report raises InternalError for STAGE and PRIME without a wrapper
InternalError == DirtyReport({}, {}, {Dependency("InternalError", 0)})

RECURSIVE should_step_run(_, _, _), dirty_report(_, _, _)

\* variant: the earlier steps of the part are not examined
should_step_run_this_step_only(sm, part, step) ==
    \/ ~has_step_run(sm, part, step)
    \/ outdated_report(sm, part, step) # NoOutdatedReport
    \/ dirty_report(sm, part, step) # NoDirtyReport

should_step_run(sm, part, step) ==
    IF \/ ~has_step_run(sm, part, step)
       \/ outdated_report(sm, part, step) # NoOutdatedReport
       \/ dirty_report(sm, part, step) # NoDirtyReport
    THEN TRUE
    ELSE IF step > PULL THEN should_step_run(sm, part, step - 1)
    ELSE FALSE

\* variant: only the direct dependencies of the part are examined
dirty_report_direct_dependencies(sm, part, step) ==
    LET report == dirty_report_for_part(sm, part, step)
        prerequisite_step == dependency_prerequisite_step(step)
    IN IF report # NoDirtyReport THEN report
       ELSE IF prerequisite_step = 0 THEN NoDirtyReport
       ELSE IF ~es_test(sm, part, step) THEN InternalError
       ELSE LET stw == es_get(sm, part, step)
                dependency_changed(d) ==
                    IF es_test(sm, d, prerequisite_step)
                    THEN is_newer_than(es_get(sm, d, prerequisite_step), stw)
                    ELSE TRUE
                changed_dependencies ==
                    {Dependency(d, prerequisite_step) :
                        d \in {x \in part_dependencies(part, FALSE) :
                                 \/ dependency_changed(x)
                                 \/ should_step_run(sm, x, prerequisite_step)}}
            IN IF changed_dependencies # {}
               THEN DirtyReport({}, {}, changed_dependencies)
               ELSE NoDirtyReport

dirty_report(sm, part, step) ==
    LET report == dirty_report_for_part(sm, part, step)
        prerequisite_step == dependency_prerequisite_step(step)
    IN IF report # NoDirtyReport THEN report
       ELSE IF prerequisite_step = 0 THEN NoDirtyReport
       ELSE IF ~es_test(sm, part, step) THEN InternalError
       ELSE LET stw == es_get(sm, part, step)
                dependency_changed(d) ==
                    IF es_test(sm, d, prerequisite_step)
                    THEN is_newer_than(es_get(sm, d, prerequisite_step), stw)
                    ELSE TRUE
                changed_dependencies ==
                    {Dependency(d, prerequisite_step) :
                        d \in {x \in part_dependencies(part, TRUE) :
                                 \/ dependency_changed(x)
                                 \/ should_step_run(sm, x, prerequisite_step)}}
            IN IF changed_dependencies # {}
               THEN DirtyReport({}, {}, changed_dependencies)
               ELSE NoDirtyReport

\* An InternalError of dirty_report leaves should_step_run, or dirty_report:
\* the calls are followed in the order of the code, "or" evaluating its
\* right side only when the left side is false.
RECURSIVE should_step_run_raises(_, _, _), dirty_report_raises(_, _, _)

should_step_run_raises(sm, part, step) ==
    IF ~has_step_run(sm, part, step) THEN FALSE
    ELSE IF outdated_report(sm, part, step) # NoOutdatedReport THEN FALSE
    ELSE IF dirty_report_raises(sm, part, step) THEN TRUE
    ELSE IF dirty_report(sm, part, step) # NoDirtyReport THEN FALSE
    ELSE IF step > PULL THEN should_step_run_raises(sm, part, step - 1)
    ELSE FALSE

dirty_report_raises(sm, part, step) ==
    LET prerequisite_step == dependency_prerequisite_step(step)
    IN IF dirty_report_for_part(sm, part, step) # NoDirtyReport THEN FALSE
       ELSE IF prerequisite_step = 0 THEN FALSE
       ELSE IF ~es_test(sm, part, step) THEN TRUE
       ELSE \E d \in part_dependencies(part, TRUE) :
               /\ es_test(sm, d, prerequisite_step)
               /\ ~is_newer_than(es_get(sm, d, prerequisite_step),
                                 es_get(sm, part, step))
               /\ should_step_run_raises(sm, d, prerequisite_step)

----------------------------------------------------------------------------
(* Actions (craft_parts/actions.py) and their reasons *)

RUN == "RUN"
RERUN == "RERUN"
UPDATE == "UPDATE"
SKIP == "SKIP"

Reason(text, part, step, dirty, outdated) ==
    [text |-> text, part |-> part, step |-> step,
     dirty |-> dirty, outdated |-> outdated]

NoReason == Reason("", "", 0, NoDirtyReport, NoOutdatedReport)
RequestedStep == Reason("requested step", "", 0, NoDirtyReport, NoOutdatedReport)
AlreadyRan == Reason("already ran", "", 0, NoDirtyReport, NoOutdatedReport)
\* f"required to {_step_verb(step)} {part.name!r}"
RequiredTo(step, part) ==
    Reason("required to", part, step, NoDirtyReport, NoOutdatedReport)
\* dirty_report.summary() and outdated_report.summary()
DirtySummary(report) == Reason("dirty", "", 0, report, NoOutdatedReport)
OutdatedSummary(report) == Reason("outdated", "", 0, NoDirtyReport, report)

Action(part_name, step, action_type, reason) ==
    [part_name |-> part_name, step |-> step, action_type |-> action_type,
     reason |-> reason]

----------------------------------------------------------------------------
(* Sequencer.  c is the StateManager record extended with the fields        *)
(* actions (Sequencer._actions) and log.  order is the order in which this  *)
(* process iterates over a set of parts.                                    *)

StateManagerOf(c) == [state |-> c.state, serial_gen |-> c.serial_gen]

add_action(c, part, step, action_type, reason) ==
    [c EXCEPT !.actions = Append(@, Action(part, step, action_type, reason))]

\* variant: the update removes the state of the step and of the later steps
update_step_cleaning(c, part, step, reason) ==
    update_state_timestamp(
        clean_part(add_action(c, part, step, UPDATE, reason), part, step),
        part, step)

update_step(c, part, step, reason) ==
    update_state_timestamp(add_action(c, part, step, UPDATE, reason), part, step)

\* one record per completed _add_step_actions call: its arguments, the
\* StateManager at entry and at return, and the index of its action
Logged(c, r, current_step, target_step, part, part_names, reason) ==
    [r EXCEPT !.log = Append(@,
        [part |-> part, step |-> current_step, target_step |-> target_step,
         part_names |-> part_names, reason |-> reason,
         pre |-> StateManagerOf(c), post |-> StateManagerOf(r),
         idx |-> Len(r.actions)])]

RECURSIVE add_all_actions(_, _, _, _, _), add_all_loop(_, _, _, _, _, _),
          add_step_actions(_, _, _, _, _, _, _), prepare_step(_, _, _, _),
          prepare_loop(_, _, _, _, _), run_step(_, _, _, _, _, _),
          rerun_step(_, _, _, _, _)

\* variant: part by part, and for each part step by step
add_all_actions_part_major(c, target_step, part_names, reason, order) ==
    LET selected_parts == part_list_by_name(part_names, part_list)
        n == Len(selected_parts)
        work == [i \in 1..(target_step * n) |->
                    <<((i - 1) % target_step) + 1,
                      selected_parts[((i - 1) \div target_step) + 1]>>]
    IN add_all_loop(c, work, target_step, part_names, reason, order)

add_all_actions(c, target_step, part_names, reason, order) ==
    LET selected_parts == part_list_by_name(part_names, part_list)
        n == Len(selected_parts)
        \* step by step, and for each step part by part
        work == [i \in 1..(target_step * n) |->
                    <<((i - 1) \div n) + 1, selected_parts[((i - 1) % n) + 1]>>]
    IN add_all_loop(c, work, target_step, part_names, reason, order)

\* variant: the loop goes from the target step down to PULL
add_all_loop_downwards(c, work, target_step, part_names, reason, order) ==
    IF work = <<>> THEN c
    ELSE add_all_loop(
            add_step_actions(c, work[Len(work)][1], target_step, work[Len(work)][2],
                             part_names, reason, order),
            SubSeq(work, 1, Len(work) - 1), target_step, part_names, reason, order)

add_all_loop(c, work, target_step, part_names, reason, order) ==
    IF work = <<>> THEN c
    ELSE add_all_loop(
            add_step_actions(c, Head(work)[1], target_step, Head(work)[2],
                             part_names, reason, order),
            Tail(work), target_step, part_names, reason, order)

\* variant: a named part gets no special treatment at the target step
add_step_actions_not_requested(c, current_step, target_step, part, part_names, reason, order) ==
    LET r ==
        IF ~has_step_run(c, part, current_step)
        THEN run_step(c, part, current_step, reason, FALSE, order)
        ELSE LET dirty == dirty_report(c, part, current_step) IN
        IF dirty # NoDirtyReport
        THEN rerun_step(c, part, current_step, DirtySummary(dirty), order)
        ELSE LET outdated == outdated_report(c, part, current_step) IN
        IF outdated # NoOutdatedReport
        THEN mark_step_updated(
                IF current_step \in {PULL, BUILD}
                THEN update_step(c, part, current_step, OutdatedSummary(outdated))
                ELSE rerun_step(c, part, current_step,
                                OutdatedSummary(outdated), order),
                part, current_step)
        ELSE add_action(c, part, current_step, SKIP, AlreadyRan)
    IN Logged(c, r, current_step, target_step, part, part_names, reason)

\* variant: the outdated report is consulted before the dirty report
add_step_actions_outdated_first(c, current_step, target_step, part, part_names, reason, order) ==
    LET r ==
        IF ~has_step_run(c, part, current_step)
        THEN run_step(c, part, current_step, reason, FALSE, order)
        ELSE IF part_names # {} /\ current_step = target_step
                /\ part \in part_names
        THEN rerun_step(c, part, current_step,
                        IF reason = NoReason THEN RequestedStep ELSE reason,
                        order)
        ELSE LET outdated == outdated_report(c, part, current_step) IN
        IF outdated # NoOutdatedReport
        THEN mark_step_updated(
                IF current_step \in {PULL, BUILD}
                THEN update_step(c, part, current_step, OutdatedSummary(outdated))
                ELSE rerun_step(c, part, current_step,
                                OutdatedSummary(outdated), order),
                part, current_step)
        ELSE LET dirty == dirty_report(c, part, current_step) IN
        IF dirty # NoDirtyReport
        THEN rerun_step(c, part, current_step, DirtySummary(dirty), order)
        ELSE add_action(c, part, current_step, SKIP, AlreadyRan)
    IN Logged(c, r, current_step, target_step, part, part_names, reason)

add_step_actions(c, current_step, target_step, part, part_names, reason, order) ==
    LET r ==
        IF ~has_step_run(c, part, current_step)
        THEN run_step(c, part, current_step, reason, FALSE, order)
        ELSE IF part_names # {} /\ current_step = target_step
                /\ part \in part_names
        THEN rerun_step(c, part, current_step,
                        IF reason = NoReason THEN RequestedStep ELSE reason,
                        order)
        ELSE LET dirty == dirty_report(c, part, current_step) IN
        IF dirty # NoDirtyReport
        THEN rerun_step(c, part, current_step, DirtySummary(dirty), order)
        ELSE LET outdated == outdated_report(c, part, current_step) IN
        IF outdated # NoOutdatedReport
        THEN mark_step_updated(
                IF current_step \in {PULL, BUILD}
                THEN update_step(c, part, current_step, OutdatedSummary(outdated))
                ELSE rerun_step(c, part, current_step,
                                OutdatedSummary(outdated), order),
                part, current_step)
        ELSE add_action(c, part, current_step, SKIP, AlreadyRan)
    IN Logged(c, r, current_step, target_step, part, part_names, reason)

prepare_step(c, part, step, order) ==
    LET all_deps == part_dependencies(part, FALSE)
        prerequisite_step == dependency_prerequisite_step(step)
    IN IF prerequisite_step = 0 THEN c
       ELSE LET deps == {p \in all_deps : should_step_run(c, p, prerequisite_step)}
            IN prepare_loop(c, SelectSeq(order, LAMBDA p : p \in deps),
                            prerequisite_step, RequiredTo(step, part), order)

prepare_loop(c, deps, prerequisite_step, reason, order) ==
    IF deps = <<>> THEN c
    ELSE prepare_loop(
            add_all_actions(c, prerequisite_step, {Head(deps)}, reason, order),
            Tail(deps), prerequisite_step, reason, order)

\* variant: the action is appended and no state is written
run_step_without_state(c, part, step, reason, rerun, order) ==
    LET c1 == prepare_step(c, part, step, order)
    IN add_action(c1, part, step, IF rerun THEN RERUN ELSE RUN, reason)

run_step(c, part, step, reason, rerun, order) ==
    LET c1 == prepare_step(c, part, step, order)
        c2 == add_action(c1, part, step, IF rerun THEN RERUN ELSE RUN, reason)
    IN set_state(c2, part, step, PartState(properties[part], project_options))

\* variant: the state of the step and of the later steps is kept
rerun_step_without_clean(c, part, step, reason, order) ==
    run_step(c, part, step, reason, TRUE, order)

rerun_step(c, part, step, reason, order) ==
    run_step(clean_part(c, part, step), part, step, reason, TRUE, order)

\* Sequencer.plan
plan(sm, target_step, part_names, order) ==
    add_all_actions([state |-> sm.state, serial_gen |-> sm.serial_gen,
                     actions |-> <<>>, log |-> <<>>],
                    target_step, part_names, NoReason, order)

----------------------------------------------------------------------------
(* The work tree and the Executor (craft_parts/executor/__init__.py).  ex   *)
(* is the Executor with the work tree: dirs (the work directories that      *)
(* exist), files (the state files), handler (Executor._handler), calls      *)
(* (the calls made to collaborators) and raised (the exception that left    *)
(* the last statement).                                                     *)

\* ProjectInfo.parts_dir, stage_dir and prime_dir
Dirs == {"parts", "stage", "prime"}

NoError == ""

ExecutorOf(d, files, h) ==
    [dirs |-> d, files |-> files, handler |-> h, calls |-> <<>>, raised |-> NoError]

\* the Executor calls a collaborator
called(ex, name, part, step) ==
    [ex EXCEPT !.calls = Append(@, [name |-> name, part |-> part, step |-> step])]

\* shutil.rmtree(path): the state files are under the parts directory
rmtree(ex, dir) ==
    IF dir \notin ex.dirs
    THEN [ex EXCEPT !.raised = "FileNotFoundError"]
    ELSE [ex EXCEPT !.dirs = @ \ {dir},
                    !.files = IF dir = "parts" THEN [p \in DOMAIN @ |-> <<>>] ELSE @]

\* Executor._clean_all_parts: the statements of the with block run while
\* none has raised, and the block suppresses FileNotFoundError
clean_all_parts(ex, step) ==
    LET a == rmtree(ex, "prime")
        b == IF a.raised = NoError /\ step <= STAGE THEN rmtree(a, "stage") ELSE a
        c == IF b.raised = NoError /\ step <= PULL THEN rmtree(b, "parts") ELSE b
    IN [c EXCEPT !.raised = IF @ = "FileNotFoundError" THEN NoError ELSE @]

\* Executor._create_part_handler
create_part_handler(ex, part) ==
    IF part \notin ex.handler
    THEN called([ex EXCEPT !.handler = @ \cup {part}], "PartHandler", part, 0)
    ELSE ex

\* PartHandler.run_action: the step is executed and its state file written
handler_run_action(ex, part, action) ==
    LET c == called(ex, "run_action", part, action.step)
        written == [state |-> PartState(properties[part], project_options),
                    timestamp |-> MaxTime]
    IN [c EXCEPT !.dirs = @ \cup {"parts"}
                            \cup (IF action.step = STAGE THEN {"stage"} ELSE {})
                            \cup (IF action.step = PRIME THEN {"prime"} ELSE {}),
                 !.files[part] = [s \in DOMAIN @ \cup {action.step} |->
                                     IF s = action.step THEN written ELSE @[s]]]

\* PartHandler.clean_step: the state file of the step is removed
handler_clean_step(ex, part, step) ==
    LET c == called(ex, "clean_step", part, step)
    IN [c EXCEPT !.files[part] = [s \in DOMAIN @ \ {step} |-> @[s]]]

\* variant: the collision check comes before the test for SKIP
run_action_checking_skipped(ex, action, part, conflict) ==
    LET c == IF action.step = STAGE
             THEN called(ex, "check_for_stage_collisions", "", 0) ELSE ex
    IN IF action.step = STAGE /\ conflict
       THEN [c EXCEPT !.raised = "PartFilesConflict"]
       ELSE IF action.action_type = SKIP THEN c
       ELSE handler_run_action(create_part_handler(c, part), part, action)

\* variant: the collision check comes after the part handler ran the action
run_action_checking_last(ex, action, part, conflict) ==
    IF action.action_type = SKIP THEN ex
    ELSE LET h == handler_run_action(create_part_handler(ex, part), part, action)
             c == IF action.step = STAGE
                  THEN called(h, "check_for_stage_collisions", "", 0) ELSE h
         IN IF action.step = STAGE /\ conflict
            THEN [c EXCEPT !.raised = "PartFilesConflict"]
            ELSE c

\* Executor.run_action; conflict: check_for_stage_collisions finds two parts
\* that stage the same path with different contents
run_action(ex, action, part, conflict) ==
    IF action.action_type = SKIP THEN ex
    ELSE LET c == IF action.step = STAGE
                  THEN called(ex, "check_for_stage_collisions", "", 0) ELSE ex
         IN IF action.step = STAGE /\ conflict
            THEN [c EXCEPT !.raised = "PartFilesConflict"]
            ELSE handler_run_action(create_part_handler(c, part), part, action)

\* list.reverse()
reverse(l) == [i \in 1..Len(l) |-> l[Len(l) - i + 1]]

\* variant: the steps are not reversed
selected_steps_ascending(step) == <<step>> \o next_steps(step)

\* selected_steps in Executor.clean: [step] + step.next_steps(), reversed
selected_steps(step) == reverse(<<step>> \o next_steps(step))

\* the inner loop of Executor.clean
RECURSIVE clean_part_steps(_, _, _)
clean_part_steps(ex, part, steps) ==
    IF steps = <<>> THEN ex
    ELSE clean_part_steps(handler_clean_step(ex, part, Head(steps)), part, Tail(steps))

\* the outer loop of Executor.clean
RECURSIVE clean_parts(_, _, _)
clean_parts(ex, parts, steps) ==
    IF parts = <<>> THEN ex
    ELSE clean_parts(
            clean_part_steps(create_part_handler(ex, Head(parts)), Head(parts), steps),
            Tail(parts), steps)

\* Executor.clean
clean(ex, step, part_names) ==
    IF part_names = {} THEN clean_all_parts(ex, step)
    ELSE clean_parts(ex, part_list_by_name(part_names, part_list), selected_steps(step))

\* no Executor call was made: the work directories exist, no part has a
\* handler
ExecutorIdle ==
    /\ dirs = Dirs
    /\ handler = {}
    /\ calls = <<>>
    /\ base_packages = FALSE

----------------------------------------------------------------------------
(* Runner.run_scriptlet (craft_parts/executor/runner.py).  A request line   *)
(* is [id, function]: the function it names and, for the claims, its place  *)
(* among the lines the scriptlet wrote.                                     *)

\* the functions _handle_control_api dispatches
Functions == {"pull", "build", "stage", "prime"}

\* NonBlockingRWFifo.read: everything the FIFO holds, at once
fifo_read(fifo) == [data |-> fifo, fifo |-> <<>>]

\* NonBlockingRWFifo.write: a full FIFO takes no line
fifo_write(fifo, line) ==
    IF Len(fifo) >= FifoCapacity
    THEN [fifo |-> fifo, raised |-> "BlockingIOError"]
    ELSE [fifo |-> Append(fifo, line), raised |-> NoError]

\* variant: a write to a full FIFO waits for a reader
waits_for_reader(fifo) == Len(fifo) >= FifoCapacity

\* a NonBlockingRWFifo write returns or raises at once
waits(fifo) == FALSE

\* The texts a scriptlet can write as a line.  json: the line is not JSON,
\* is a JSON number, or is a JSON object; attrs: the attributes of the
\* object among "function" and "args"; function: the value of "function".
Message(json, attrs, function) == [json |-> json, attrs |-> attrs, function |-> function]

Messages ==
    {Message("invalid", {}, ""), Message("number", {}, ""),
     Message("object", {"args"}, ""), Message("object", {"function"}, "build"),
     Message("object", {"function", "args"}, "unknown")}
    \cup {Message("object", {"function", "args"}, f) : f \in Functions}

\* Runner._handle_control_api(function_call.strip()): what it raises and
\* the built-ins it runs; failed: the built-in raises.  Two lines read at
\* once are not JSON.
handle_control_api(text, failed) ==
    IF Len(text) # 1 \/ text[1].json = "invalid"
    THEN [raised |-> "InternalError", builtins |-> <<>>]
    ELSE IF text[1].json = "number"
    THEN [raised |-> "TypeError", builtins |-> <<>>]
    ELSE IF {"function", "args"} \ text[1].attrs # {}
    THEN [raised |-> "InternalError", builtins |-> <<>>]
    ELSE IF text[1].function \in Functions
    THEN [raised |-> IF failed THEN "PluginBuildError" ELSE NoError,
          builtins |-> <<text[1].function>>]
    ELSE [raised |-> "InvalidControlAPICall", builtins |-> <<>>]

\* variant: the exit code of the subprocess is not looked at
returncode_ignored(returncode) == NoError

\* the end of run_scriptlet: if process.returncode != 0: raise
\* ScriptletRunError(scriptlet_name, code=status)
returncode_check(returncode) ==
    IF returncode # "exit 0" THEN "ScriptletRunError" ELSE NoError

\* run_scriptlet is not running
RunnerIdle ==
    /\ call_fifo = <<>>
    /\ feedback_fifo = <<>>
    /\ process = "none"
    /\ pc = "idle"
    /\ function_call = <<>>
    /\ status = "None"
    /\ error = NoError
    /\ builtins = <<>>
    /\ requests = 0
    /\ answers = <<>>

----------------------------------------------------------------------------
(* Callbacks (craft_parts/callbacks.py): process-wide lists of hooks, one   *)
(* list for each kind of hook.                                              *)

HookKinds == {"pre_step", "post_step", "prologue", "epilogue"}

\* CallbackHook(function, step_list)
CallbackHook(function, step_list) == [function |-> function, step_list |-> step_list]

\* callbacks.clear(): every list is emptied
clear == [k \in HookKinds |-> <<>>]

\* variant: a function is refused when it is registered with the same steps
ensure_not_defined_same_steps(hook_list, function, step_list) ==
    IF \E i \in DOMAIN hook_list : hook_list[i] = CallbackHook(function, step_list)
    THEN "CallbackRegistration" ELSE NoError

\* the test every register function makes first: the function is not in
\* the list, whatever its steps
ensure_not_defined(hook_list, function, step_list) ==
    IF \E i \in DOMAIN hook_list : hook_list[i].function = function
    THEN "CallbackRegistration" ELSE NoError

\* register_pre_step, register_post_step, register_prologue and
\* register_epilogue on the lists h
register(h, kind, function, step_list) ==
    LET raised == ensure_not_defined(h[kind], function, step_list)
    IN [raised |-> raised,
        hooks |-> IF raised = NoError
                  THEN [h EXCEPT ![kind] = Append(@, CallbackHook(function, step_list))]
                  ELSE h]

----------------------------------------------------------------------------
(* _build_part (craft_parts/manager.py).  A part spec is a dict: the        *)
(* sequence of its entries in insertion order.  The key of an entry is the  *)
(* plugin name before its first "-" (prefix, "" when there is none) and the *)
(* rest; value is the value of the "plugin" entry.                          *)

Entry(prefix, name, value) == [prefix |-> prefix, name |-> name, value |-> value]

\* key.startswith(f"{plugin_name}-")
startswith(entry, plugin_name) == entry.prefix = plugin_name

\* del data[key]
del(data, pos) == [i \in 1..(Len(data) - 1) |-> IF i < pos THEN data[i] ELSE data[i + 1]]

\* `for key in data` of _strip_plugin_properties: the dict iterator raises
\* RuntimeError when the size of the dict is not the size it was when the
\* loop started
RECURSIVE strip_loop(_, _, _, _)
strip_loop(data, pos, di_used, plugin_name) ==
    IF Len(data) # di_used THEN [data |-> data, raised |-> "RuntimeError"]
    ELSE IF pos > Len(data) THEN [data |-> data, raised |-> NoError]
    ELSE IF startswith(data[pos], plugin_name)
    THEN strip_loop(del(data, pos), pos, di_used, plugin_name)
    ELSE strip_loop(data, pos + 1, di_used, plugin_name)

strip_plugin_properties(data, plugin_name) ==
    strip_loop(data, 1, Len(data), plugin_name)

\* _build_part(name, spec, project_dirs): what it raises and the spec it
\* hands to Part
build_part(name, spec) ==
    LET plugin == {i \in DOMAIN spec : spec[i].prefix = "" /\ spec[i].name = "plugin"}
        plugin_name == IF plugin = {} THEN name
                       ELSE spec[CHOOSE i \in plugin : TRUE].value
    IN strip_plugin_properties(spec, plugin_name)

----------------------------------------------------------------------------
(* _migrate_files (craft_parts/executor/runner.py).  A tree gives for each  *)
(* path what is there: nothing, a regular file with its content, a symlink  *)
(* with its target text, or a directory.                                    *)

Nothing == [kind |-> "none", data |-> ""]
Regular(content) == [kind |-> "file", data |-> content]
Symlink(link_target) == [kind |-> "symlink", data |-> link_target]
Directory == [kind |-> "dir", data |-> ""]

\* the paths of a tree, sorted
Paths == <<"bin", "hello">>

\* sorted(names)
sorted(S) == SelectSeq(Paths, LAMBDA n : n \in S)

\* os.path.islink(path)
islink(tree, path) == tree[path].kind = "symlink"

\* os.path.exists(path), for a path that is not a symlink
exists(tree, path) == tree[path].kind # "none"

\* file_utils.create_similar_directory(src, dst)
create_similar_directory(m, src, path) ==
    IF m.dst[path].kind = "none" THEN [m EXCEPT !.dst[path] = Directory] ELSE m

\* file_utils.link_or_copy(src, dst, follow_symlinks): a symlink is created
\* again with its target text unless follow_symlinks
link_or_copy(m, src, path, follow_symlinks) ==
    IF src[path].kind = "symlink" /\ follow_symlinks
    THEN [m EXCEPT !.dst[path] = Regular(src[path].data)]
    ELSE [m EXCEPT !.dst[path] = src[path]]

\* variant: a symlink at the destination is removed like a regular file
migrate_file_replacing_links(m, src, path, missing_ok, follow_symlinks) ==
    IF missing_ok /\ ~exists(src, path) THEN m
    ELSE IF m.dst[path].kind = "dir" THEN [m EXCEPT !.raised = "IsADirectoryError"]
    ELSE link_or_copy([m EXCEPT !.dst[path] = Nothing], src, path, follow_symlinks)

\* the body of `for filename in sorted(files)`; os.remove raises for a
\* directory
migrate_file(m, src, path, missing_ok, follow_symlinks) ==
    IF missing_ok /\ ~exists(src, path) THEN m
    ELSE IF islink(m.dst, path) THEN m
    ELSE IF exists(m.dst, path)
    THEN (IF m.dst[path].kind = "dir"
          THEN [m EXCEPT !.raised = "IsADirectoryError"]
          ELSE link_or_copy([m EXCEPT !.dst[path] = Nothing], src, path, follow_symlinks))
    ELSE link_or_copy(m, src, path, follow_symlinks)

RECURSIVE migrate_dirs_loop(_, _, _)
migrate_dirs_loop(m, src, dirnames) ==
    IF dirnames = <<>> THEN m
    ELSE migrate_dirs_loop(create_similar_directory(m, src, Head(dirnames)), src,
                           Tail(dirnames))

RECURSIVE migrate_files_loop(_, _, _, _, _)
migrate_files_loop(m, src, filenames, missing_ok, follow_symlinks) ==
    IF filenames = <<>> \/ m.raised # NoError THEN m
    ELSE migrate_files_loop(
            migrate_file(m, src, Head(filenames), missing_ok, follow_symlinks),
            src, Tail(filenames), missing_ok, follow_symlinks)

\* _migrate_files(files, dirs, srcdir, destdir, missing_ok, follow_symlinks):
\* the destination tree it leaves and what it raises
migrate_files(files, dirnames, src, dst, missing_ok, follow_symlinks) ==
    migrate_files_loop(
        migrate_dirs_loop([dst |-> dst, raised |-> NoError], src, sorted(dirnames)),
        src, sorted(files), missing_ok, follow_symlinks)

----------------------------------------------------------------------------
(* The process *)

Orderings(S) ==
    {o \in [1..Cardinality(S) -> S] : \A i, j \in DOMAIN o : i # j => o[i] # o[j]}

\* The order in which this process iterates over a set of parts: any order
\* of the parts that share a set of dependencies with another part (the
\* other parts are alone in every set that is iterated over).
SetOrders ==
    LET several == UNION {after[p] : p \in {q \in DOMAIN after :
                                              Cardinality(after[q]) >= 2}}
    IN {o \o SelectSeq(part_list, LAMBDA p : p \notin several) :
            o \in Orderings(several)}

\* the project of the scenarios: B after A
TwoParts == [p \in {"A", "B"} |-> IF p = "B" THEN {"A"} ELSE {}]

\* the projects: B after A; the chain C, B after C, A after B; and the
\* diamond A, B after A, C after A and B
Projects ==
    { TwoParts,
      [p \in {"A", "B", "C"} |-> IF p = "A" THEN {"B"}
                                  ELSE IF p = "B" THEN {"C"} ELSE {}],
      [p \in {"A", "B", "C"} |-> IF p = "B" THEN {"A"}
                                  ELSE IF p = "C" THEN {"A", "B"} ELSE {}] }

\* the values of a property and of the project option: 1 now, 0 before an edit
CurrentProperties == [k \in Steps |-> 1]
CurrentOptions == 1

\* What an earlier process left behind.  ran[p] is the number of steps of p
\* that have a state file, written at time 1.  In the project of the
\* scenarios at most one thing happened afterwards: a state file was written
\* again at a later time (touch), a property of a part was edited (edit), or
\* the project option was changed (option).  In the other projects every
\* part was left unpulled, staged or primed, and nothing happened afterwards.
NoFile == <<"", 0>>
Files(ran) == {f \in (DOMAIN ran) \X Steps : f[2] <= ran[f[1]]}

Histories(deps) ==
    IF deps = TwoParts
    THEN UNION {
         {[ran |-> ran, touch |-> NoFile, time |-> 1, edit |-> NoFile, option |-> o]
            : o \in {0, 1}}
         \cup
         {[ran |-> ran, touch |-> f, time |-> t, edit |-> NoFile, option |-> 1]
            : f \in Files(ran), t \in 2..MaxTime}
         \cup
         {[ran |-> ran, touch |-> NoFile, time |-> 1, edit |-> f, option |-> 1]
            : f \in Files(ran)}
         : ran \in [DOMAIN deps -> 0..PRIME]}
    ELSE {[ran |-> ran, touch |-> NoFile, time |-> 1, edit |-> NoFile, option |-> 1]
            : ran \in [DOMAIN deps -> {0, STAGE, PRIME}]}

StateFiles(h) ==
    [p \in DOMAIN h.ran |-> [s \in 1..h.ran[p] |->
        [state |-> PartState(
            [k \in Steps |-> IF h.edit = <<p, k>> THEN 0 ELSE CurrentProperties[k]],
            h.option),
         timestamp |-> IF h.touch = <<p, s>> THEN h.time ELSE 1]]]

\* The source of at most one part has changed upstream.  check() compares
\* the source with the state file of PULL (tests/unit/sources/test_local.py):
\* it reports a change only for a part that has this file.
Sources(files) ==
    {[p \in DOMAIN files |-> IF p = c THEN "changed" ELSE "unchanged"] :
        c \in {p \in DOMAIN files : PULL \in DOMAIN files[p]} \cup {""}}

\* a call of the process: the method, its part and step, its other
\* arguments and what it returned
Call(name, part, step, arg, result) ==
    [name |-> name, part |-> part, step |-> step, arg |-> arg, result |-> result]

NoCall == Call("", "", 0, {}, TRUE)

\* the serials next(self._serial_gen) returned while the last one issued
\* went from one value to another
Issued(from, to) == [i \in 1..(to - from) |-> from + i]

Init ==
    /\ after \in Projects
    /\ part_list = sort_parts(after)
    /\ properties = [p \in DOMAIN after |-> CurrentProperties]
    /\ project_options = CurrentOptions
    /\ \E h \in Histories(after) : persisted = StateFiles(h)
    /\ source \in Sources(persisted)
    /\ state = load_state(persisted)
    /\ serial_gen = 0
    /\ target = 0
    /\ names = {}
    /\ repeated = FALSE
    /\ before = [state |-> state, serial_gen |-> serial_gen]
    /\ actions = <<>>
    /\ log = <<>>
    /\ op = NoCall
    /\ created = <<>>
    /\ cleans = 0
    /\ ExecutorIdle
    /\ RunnerIdle
    /\ hooks = clear

PlanCall(target_step, part_names, order) ==
    LET sm == [state |-> state, serial_gen |-> serial_gen]
    IN \E r \in {plan(sm, target_step, part_names, order)} :
          /\ state' = r.state
          /\ serial_gen' = r.serial_gen
          /\ actions' = r.actions
          /\ log' = r.log
          /\ before' = sm
          /\ target' = target_step
          /\ names' = part_names
          /\ repeated' = (target # 0 /\ target_step = target /\ part_names = names)
          /\ op' = Call("plan", "", target_step, part_names, TRUE)
          /\ created' = created \o Issued(serial_gen, r.serial_gen)
          /\ UNCHANGED <<executor_vars, runner_vars, hooks>>
          /\ UNCHANGED <<part_list, after, properties, project_options, source,
                         persisted, cleans>>

\* plan(target_step, part_names), with any arguments
Plan ==
    /\ serial_gen < MaxSerial
    /\ \E t \in Steps, ns \in SUBSET DOMAIN after, o \in SetOrders :
          PlanCall(t, ns, o)

\* plan() called again with the arguments of the previous call
Replan ==
    /\ target # 0
    /\ before.serial_gen < MaxSerial
    /\ \E o \in SetOrders : PlanCall(target, names, o)

Next == Plan \/ Replan

Spec == Init /\ [][Next]_vars

----------------------------------------------------------------------------
(* The process that plans once: the StateManager it holds is the one it     *)
(* loaded, or the one its first plan() call left.                           *)

PlanOnce ==
    /\ target = 0
    /\ \E t \in Steps, ns \in SUBSET DOMAIN after, o \in SetOrders :
          PlanCall(t, ns, o)

NextPlanOnce == PlanOnce

SpecPlanOnce == Init /\ [][NextPlanOnce]_vars

----------------------------------------------------------------------------
(* The process seen from the StateManager: the methods that create and     *)
(* remove wrappers are called on any part and step, and reload_state()      *)
(* replaces the StateManager by a new one.                                  *)

\* Sequencer.reload_state: a new StateManager, with a new serial generator
reload_state(files) == [state |-> load_state(files), serial_gen |-> 0]

\* all parts were left unpulled, or all primed, and nothing happened
\* afterwards
HistoriesSM(deps) ==
    {h \in Histories(deps) :
        /\ \E n \in {0, PRIME} : \A p \in DOMAIN deps : h.ran[p] = n
        /\ h.touch = NoFile /\ h.edit = NoFile /\ h.option = CurrentOptions}

\* the process starts with the parts of deps, the state files of one of
\* the histories hs and their sources in srcs
InitOf(deps, hs, srcs) ==
    /\ after = deps
    /\ part_list = sort_parts(after)
    /\ properties = [p \in DOMAIN after |-> CurrentProperties]
    /\ project_options = CurrentOptions
    /\ \E h \in hs : persisted = StateFiles(h)
    /\ source \in srcs
    /\ state = load_state(persisted)
    /\ serial_gen = 0
    /\ target = 0
    /\ names = {}
    /\ repeated = FALSE
    /\ before = [state |-> state, serial_gen |-> serial_gen]
    /\ actions = <<>>
    /\ log = <<>>
    /\ op = NoCall
    /\ created = <<>>
    /\ cleans = 0
    /\ ExecutorIdle
    /\ RunnerIdle
    /\ hooks = clear

\* A and B were primed, and at most one state file was written again later
InitSM ==
    InitOf(TwoParts,
           {h \in Histories(TwoParts) :
               /\ \A p \in DOMAIN TwoParts : h.ran[p] = PRIME
               /\ h.edit = NoFile /\ h.option = CurrentOptions},
           {[p \in DOMAIN TwoParts |-> "unchanged"]})

\* a call of a StateManager method that leaves the StateManager r
SMCall(name, part, step, r) ==
    /\ state' = r.state
    /\ serial_gen' = r.serial_gen
    /\ before' = [state |-> state, serial_gen |-> serial_gen]
    /\ op' = Call(name, part, step, {}, TRUE)
    /\ created' = created \o Issued(serial_gen, r.serial_gen)
    /\ UNCHANGED <<executor_vars, runner_vars, hooks>>
    /\ UNCHANGED <<part_list, after, properties, project_options, source,
                   persisted, target, names, repeated, actions, log>>

SetState ==
    /\ serial_gen < MaxWrites
    /\ \E p \in DOMAIN after, s \in Steps :
          SMCall("set_state", p, s,
                 set_state([state |-> state, serial_gen |-> serial_gen], p, s,
                           PartState(properties[p], project_options)))
    /\ UNCHANGED cleans

UpdateStateTimestamp ==
    /\ serial_gen < MaxWrites
    /\ \E p \in DOMAIN after, s \in Steps :
          /\ s \in DOMAIN state[p]
          /\ SMCall("update_state_timestamp", p, s,
                    update_state_timestamp(
                        [state |-> state, serial_gen |-> serial_gen], p, s))
    /\ UNCHANGED cleans

MarkStepUpdated ==
    /\ serial_gen < MaxWrites
    /\ \E p \in DOMAIN after, s \in Steps :
          /\ s \in DOMAIN state[p]
          /\ SMCall("mark_step_updated", p, s,
                    mark_step_updated(
                        [state |-> state, serial_gen |-> serial_gen], p, s))
    /\ UNCHANGED cleans

CleanPart ==
    /\ cleans < MaxCleans
    /\ \E p \in DOMAIN after, s \in Steps :
          SMCall("clean_part", p, s,
                 clean_part([state |-> state, serial_gen |-> serial_gen], p, s))
    /\ cleans' = cleans + 1

\* reload_state(), once, after this process created a wrapper
ReloadState ==
    /\ serial_gen > 0
    /\ Len(created) = serial_gen
    /\ state' = reload_state(persisted).state
    /\ serial_gen' = reload_state(persisted).serial_gen
    /\ before' = [state |-> state, serial_gen |-> serial_gen]
    /\ op' = Call("reload_state", "", 0, {}, TRUE)
    /\ UNCHANGED <<executor_vars, runner_vars, hooks>>
    /\ UNCHANGED <<part_list, after, properties, project_options, source,
                   persisted, target, names, repeated, actions, log, created,
                   cleans>>

\* _StateWrapper(state, timestamp, serial) called directly, with any
\* timestamp and serial, before the process writes or cleans
ConstructFirst ==
    /\ op.name \in {"", "_StateWrapper"}
    /\ \E t \in 0..MaxTime, n \in 0..(MaxWrites + 1) :
          op' = Call("_StateWrapper", "", 0, <<t, n>>,
                     wrapper_init(PartState(CurrentProperties, CurrentOptions),
                                  t, n, FALSE))
    /\ UNCHANGED <<executor_vars, runner_vars, hooks>>
    /\ UNCHANGED <<part_list, after, properties, project_options, source,
                   persisted, state, serial_gen, target, names, repeated,
                   before, actions, log, created, cleans>>

NextSM ==
    \/ ConstructFirst
    \/ SetState
    \/ UpdateStateTimestamp
    \/ MarkStepUpdated
    \/ CleanPart
    \/ ReloadState

SpecSM == InitSM /\ [][NextSM]_vars

----------------------------------------------------------------------------
(* The process that plans and cleans: plan() and clean_part() are called    *)
(* in any order.                                                            *)

Chain == [p \in {"A", "B", "C"} |-> IF p = "A" THEN {"B"}
                                    ELSE IF p = "B" THEN {"C"} ELSE {}]

InitClean ==
    \E deps \in {TwoParts, Chain} :
        InitOf(deps, HistoriesSM(deps), {[p \in DOMAIN deps |-> "unchanged"]})

PlanClean ==
    /\ serial_gen < MaxSerial
    /\ \E t \in Steps, ns \in SUBSET DOMAIN after, o \in SetOrders :
          PlanCall(t, ns, o)

NextClean == PlanClean \/ CleanPart

SpecClean == InitClean /\ [][NextClean]_vars

----------------------------------------------------------------------------
(* The wrappers on their own: _StateWrapper is constructed with any         *)
(* timestamp and serial, and any two wrappers are compared.                 *)

\* the wrappers of state files and the wrappers a process creates
Wrappers ==
    LET sts == {PartState(CurrentProperties, o) : o \in {0, CurrentOptions}}
    IN {StateWrapper(st, t, 0, FALSE) : st \in sts, t \in 1..MaxTime}
       \cup {StateWrapper(st, 0, n, u) :
                st \in sts, n \in 1..(MaxWrites + 1), u \in BOOLEAN}

InitWrapper ==
    InitOf(TwoParts, HistoriesSM(TwoParts), {[p \in DOMAIN TwoParts |-> "unchanged"]})

\* a.is_newer_than(b)
Compare ==
    /\ \E a, b \in Wrappers :
          op' = Call("is_newer_than", "", 0, <<a, b>>, is_newer_than(a, b))
    /\ UNCHANGED <<executor_vars, runner_vars, hooks>>
    /\ UNCHANGED <<part_list, after, properties, project_options, source,
                   persisted, state, serial_gen, target, names, repeated,
                   before, actions, log, created, cleans>>

\* _StateWrapper(state, timestamp, serial)
Construct ==
    /\ \E t \in 0..MaxTime, n \in 0..(MaxWrites + 1) :
          op' = Call("_StateWrapper", "", 0, <<t, n>>,
                     wrapper_init(PartState(CurrentProperties, CurrentOptions),
                                  t, n, FALSE))
    /\ UNCHANGED <<executor_vars, runner_vars, hooks>>
    /\ UNCHANGED <<part_list, after, properties, project_options, source,
                   persisted, state, serial_gen, target, names, repeated,
                   before, actions, log, created, cleans>>

NextWrapper == Compare \/ Construct

SpecWrapper == InitWrapper /\ [][NextWrapper]_vars

----------------------------------------------------------------------------
(* outdated_report on its own: it is called on a part whose steps hold any  *)
(* wrappers the methods of the StateManager can have left there.            *)

OnePart == [p \in {"A"} |-> {}]

\* What the source of a part does when outdated_report asks it: there is no
\* source handler, check() raises SourceUpdateUnsupported, check() returns
\* True, check() returns False.
SourceOutcomes == {"no handler", "unsupported", "changed", "unchanged"}

MaxOf(S) == IF S = {} THEN 0 ELSE CHOOSE n \in S : \A m \in S : m <= n

\* Any subset of the steps of the part holds wrappers: of state files, with
\* any timestamps, and created by this process, with serials that differ;
\* the source of the part does any of the things a source does.
InitOutdated ==
    /\ after = OnePart
    /\ part_list = sort_parts(after)
    /\ properties = [p \in DOMAIN after |-> CurrentProperties]
    /\ project_options = CurrentOptions
    /\ source \in [DOMAIN after -> SourceOutcomes]
    /\ \E S \in SUBSET Steps :
          \E f \in [S -> {w \in Wrappers :
                            w.state = PartState(CurrentProperties, CurrentOptions)}] :
             /\ \A s, t \in S : (s # t /\ f[s].serial # 0) => f[s].serial # f[t].serial
             /\ state = [p \in DOMAIN after |-> f]
             /\ persisted = [p \in DOMAIN after |->
                               [s \in {t \in S : f[t].timestamp # 0} |->
                                   [state |-> f[s].state, timestamp |-> f[s].timestamp]]]
             /\ serial_gen = MaxOf({f[s].serial : s \in S})
    /\ created = Issued(0, serial_gen)
    /\ target = 0
    /\ names = {}
    /\ repeated = FALSE
    /\ before = [state |-> state, serial_gen |-> serial_gen]
    /\ actions = <<>>
    /\ log = <<>>
    /\ op = NoCall
    /\ cleans = 0
    /\ ExecutorIdle
    /\ RunnerIdle
    /\ hooks = clear

\* outdated_report(part, step)
OutdatedReportCall ==
    /\ \E p \in DOMAIN after, s \in Steps :
          op' = Call("outdated_report", p, s, {},
                     outdated_report([state |-> state, serial_gen |-> serial_gen],
                                     p, s))
    /\ UNCHANGED <<executor_vars, runner_vars, hooks>>
    /\ UNCHANGED <<part_list, after, properties, project_options, source,
                   persisted, state, serial_gen, target, names, repeated,
                   before, actions, log, created, cleans>>

NextOutdated == OutdatedReportCall

SpecOutdated == InitOutdated /\ [][NextOutdated]_vars

----------------------------------------------------------------------------
(* The LifecycleManager (craft_parts/manager.py) and the process that makes *)
(* one call on it: plan(), clean() or the execution of one action, from any *)
(* work tree an earlier process can have left.                              *)

\* LifecycleManager.clean; step is 0 when none is given
LifecycleManager_clean(ex, step, part_names) ==
    clean(ex, IF step = 0 THEN PULL ELSE step, part_names)

\* LifecycleManager.plan; changed: the base packages layer has no state, or
\* the state of other base packages
LifecycleManager_plan(ex, sm, target_step, part_names, order, changed) ==
    LET cleaned == base_packages /\ changed
        ex1 == IF cleaned THEN LifecycleManager_clean(ex, PULL, {}) ELSE ex
        sm1 == IF cleaned THEN reload_state(ex1.files) ELSE sm
    IN [ex |-> ex1, sm |-> sm1, r |-> plan(sm1, target_step, part_names, order)]

\* the parts were run up to any step by an earlier process
HistoriesLifecycle(deps) ==
    {h \in Histories(deps) :
        h.touch = NoFile /\ h.edit = NoFile /\ h.option = CurrentOptions}

\* the actions a caller can hand to run_action
ActionTypes == {RUN, RERUN, UPDATE, SKIP}

InitLifecycle ==
    /\ after = TwoParts
    /\ part_list = sort_parts(after)
    /\ properties = [p \in DOMAIN after |-> CurrentProperties]
    /\ project_options = CurrentOptions
    /\ \E h \in HistoriesLifecycle(after) : persisted = StateFiles(h)
    /\ source = [p \in DOMAIN after |-> "unchanged"]
    /\ state = load_state(persisted)
    /\ serial_gen = 0
    /\ target = 0
    /\ names = {}
    /\ repeated = FALSE
    /\ before = [state |-> state, serial_gen |-> serial_gen]
    /\ actions = <<>>
    /\ log = <<>>
    /\ op = NoCall
    /\ created = <<>>
    /\ cleans = 0
    /\ dirs \in SUBSET Dirs
    /\ (\E p \in DOMAIN persisted : DOMAIN persisted[p] # {}) => "parts" \in dirs
    /\ handler \in SUBSET DOMAIN after
    /\ calls = <<>>
    /\ base_packages \in BOOLEAN
    /\ RunnerIdle
    /\ hooks = clear

\* an Executor call that leaves the Executor ex
ExecutorCall(name, part, step, arg, ex) ==
    /\ dirs' = ex.dirs
    /\ persisted' = ex.files
    /\ handler' = ex.handler
    /\ calls' = ex.calls
    /\ op' = Call(name, part, step, arg, ex.raised)
    /\ UNCHANGED <<runner_vars, hooks>>
    /\ UNCHANGED <<part_list, after, properties, project_options, source,
                   state, serial_gen, target, names, repeated, before, actions,
                   log, created, cleans, base_packages>>

\* Sequencer.plan(target_step, part_names)
SequencerPlan ==
    /\ op = NoCall
    /\ \E t \in Steps, ns \in SUBSET DOMAIN after, o \in SetOrders :
          PlanCall(t, ns, o)

\* LifecycleManager.plan(target_step, part_names)
LifecyclePlan ==
    /\ op = NoCall
    /\ \E t \in Steps, ns \in SUBSET DOMAIN after, o \in SetOrders,
          changed \in {c \in BOOLEAN : c => base_packages} :
          \E l \in {LifecycleManager_plan(ExecutorOf(dirs, persisted, handler),
                                          [state |-> state, serial_gen |-> serial_gen],
                                          t, ns, o, changed)} :
             /\ state' = l.r.state
             /\ serial_gen' = l.r.serial_gen
             /\ actions' = l.r.actions
             /\ log' = l.r.log
             /\ before' = l.sm
             /\ target' = t
             /\ names' = ns
             /\ repeated' = FALSE
             /\ created' = created \o Issued(l.sm.serial_gen, l.r.serial_gen)
             /\ dirs' = l.ex.dirs
             /\ persisted' = l.ex.files
             /\ handler' = l.ex.handler
             /\ calls' = l.ex.calls
             /\ op' = Call("LifecycleManager.plan", "", t,
                           [part_names |-> ns, changed |-> changed], TRUE)
             /\ UNCHANGED <<runner_vars, hooks>>
             /\ UNCHANGED <<part_list, after, properties, project_options,
                            source, cleans, base_packages>>

\* LifecycleManager.clean(step, part_names), with and without a step
LifecycleClean ==
    /\ op = NoCall
    /\ \E step \in {0} \cup Steps, ns \in SUBSET DOMAIN after :
          ExecutorCall("clean", "", step, ns,
                       LifecycleManager_clean(ExecutorOf(dirs, persisted, handler),
                                              step, ns))

\* LifecycleManager._execute runs one action
RunAction ==
    /\ op = NoCall
    /\ \E part \in DOMAIN after, step \in Steps, type \in ActionTypes,
          conflict \in BOOLEAN :
          ExecutorCall("run_action", part, step,
                       [action_type |-> type, conflict |-> conflict],
                       run_action(ExecutorOf(dirs, persisted, handler),
                                  Action(part, step, type, NoReason), part, conflict))

NextLifecycle == SequencerPlan \/ LifecyclePlan \/ LifecycleClean \/ RunAction

SpecLifecycle == InitLifecycle /\ [][NextLifecycle]_vars

----------------------------------------------------------------------------
(* The process that runs a scriptlet: the polling loop of run_scriptlet and *)
(* the subprocess take steps in any order.  The subprocess writes request   *)
(* lines, reads feedback lines or not, and exits when it wants.             *)

sequencer_vars == <<part_list, after, properties, project_options, source,
                    persisted, state, serial_gen, target, names, repeated,
                    before, actions, log, op, created, cleans>>

InitScriptlet ==
    InitOf(TwoParts,
           {h \in HistoriesSM(TwoParts) : \A p \in DOMAIN TwoParts : h.ran[p] = 0},
           {[p \in DOMAIN TwoParts |-> "unchanged"]})

\* run_scriptlet has returned or raised
Terminated == pc \in {"returned", "raised"}

\* a feedback line, and the requests _handle_control_api was given before it
Answer(line, text) == [line |-> line, requests |-> {text[i].id : i \in DOMAIN text}]

\* run_scriptlet up to the loop: the FIFOs are created, /bin/sh is started
RunScriptlet ==
    /\ pc = "idle"
    /\ process' = "running"
    /\ pc' = "read"
    /\ UNCHANGED <<call_fifo, feedback_fifo, function_call, status, error,
                   requests, answers>>
    /\ UNCHANGED <<hooks, sequencer_vars, executor_vars, builtins>>

\* function_call = call_fifo.read()
FifoRead ==
    /\ pc = "read"
    /\ ~waits(call_fifo)
    /\ function_call' = fifo_read(call_fifo).data
    /\ call_fifo' = fifo_read(call_fifo).fifo
    /\ pc' = IF function_call' # <<>> THEN "handle" ELSE "poll"
    /\ UNCHANGED <<feedback_fifo, process, status, error, requests, answers>>
    /\ UNCHANGED <<hooks, sequencer_vars, executor_vars, builtins>>

\* self._handle_control_api(scriptlet_name, function_call.strip())
HandleControlApi ==
    /\ pc = "handle"
    /\ \E failed \in BOOLEAN :
          /\ error' = handle_control_api(function_call, failed).raised
          /\ builtins' = builtins \o handle_control_api(function_call, failed).builtins
          /\ pc' = IF error' = NoError THEN "feedback" ELSE "except"
    /\ UNCHANGED <<call_fifo, feedback_fifo, process, function_call, status,
                   requests, answers>>
    /\ UNCHANGED <<hooks, sequencer_vars, executor_vars>>

\* feedback_fifo.write("\n")
FeedbackWrite ==
    /\ pc = "feedback"
    /\ ~waits(feedback_fifo)
    /\ LET w == fifo_write(feedback_fifo, "")
       IN /\ feedback_fifo' = w.fifo
          /\ error' = w.raised
          /\ answers' = IF w.raised = NoError
                        THEN Append(answers, Answer("", function_call))
                        ELSE answers
          /\ pc' = IF w.raised = NoError THEN "poll" ELSE "except"
    /\ UNCHANGED <<call_fifo, process, function_call, status, requests>>
    /\ UNCHANGED <<hooks, sequencer_vars, executor_vars, builtins>>

\* status = process.poll(), time.sleep(0.1) and the loop test; when the loop
\* ends, the finally block and the test of process.returncode
Poll ==
    /\ pc = "poll"
    /\ status' = IF process = "running" THEN "None" ELSE process
    /\ pc' = IF process = "running" THEN "read"
             ELSE IF returncode_check(process) # NoError THEN "raised"
             ELSE "returned"
    /\ error' = IF process = "running" THEN error ELSE returncode_check(process)
    /\ UNCHANGED <<call_fifo, feedback_fifo, process, function_call, requests,
                   answers>>
    /\ UNCHANGED <<hooks, sequencer_vars, executor_vars, builtins>>

\* except Exception as error: feedback_fifo.write(f"{error!s}\n"); raise
\* error; then the finally block
ExceptWrite ==
    /\ pc = "except"
    /\ ~waits(feedback_fifo)
    /\ LET w == fifo_write(feedback_fifo, error)
       IN /\ feedback_fifo' = w.fifo
          /\ error' = IF w.raised = NoError THEN error ELSE w.raised
          /\ answers' = IF w.raised = NoError
                        THEN Append(answers, Answer(error, function_call))
                        ELSE answers
    /\ pc' = "raised"
    /\ UNCHANGED <<call_fifo, process, function_call, status, requests>>
    /\ UNCHANGED <<hooks, sequencer_vars, executor_vars, builtins>>

\* the steps of run_scriptlet
RunnerStep ==
    RunScriptlet \/ FifoRead \/ HandleControlApi \/ FeedbackWrite \/ Poll \/ ExceptWrite

\* the scriptlet writes a request line to the call FIFO
ScriptletWrite ==
    /\ process = "running"
    /\ ~Terminated
    /\ requests < MaxRequests
    /\ \E m \in Messages :
          call_fifo' = Append(call_fifo, [id |-> requests + 1, json |-> m.json,
                                          attrs |-> m.attrs, function |-> m.function])
    /\ requests' = requests + 1
    /\ UNCHANGED <<feedback_fifo, process, pc, function_call, status, error,
                   answers>>
    /\ UNCHANGED <<hooks, sequencer_vars, executor_vars, builtins>>

\* the scriptlet reads a line from the feedback FIFO
ScriptletRead ==
    /\ process = "running"
    /\ ~Terminated
    /\ feedback_fifo # <<>>
    /\ feedback_fifo' = Tail(feedback_fifo)
    /\ UNCHANGED <<call_fifo, process, pc, function_call, status, error,
                   requests, answers>>
    /\ UNCHANGED <<hooks, sequencer_vars, executor_vars, builtins>>

\* the scriptlet exits
ScriptletExit ==
    /\ process = "running"
    /\ ~Terminated
    /\ process' \in {"exit 0", "exit 1"}
    /\ UNCHANGED <<call_fifo, feedback_fifo, pc, function_call, status, error,
                   requests, answers>>
    /\ UNCHANGED <<hooks, sequencer_vars, executor_vars, builtins>>

NextScriptlet ==
    \/ RunScriptlet
    \/ FifoRead
    \/ HandleControlApi
    \/ FeedbackWrite
    \/ Poll
    \/ ExceptWrite
    \/ ScriptletWrite
    \/ ScriptletRead
    \/ ScriptletExit

SpecScriptlet == InitScriptlet /\ [][NextScriptlet]_vars

\* the polling loop is a running thread: it takes its next step
SpecScriptletFair == SpecScriptlet /\ WF_vars(RunnerStep)

----------------------------------------------------------------------------
(* The process that registers callbacks: the register functions and clear() *)
(* are called in any order.                                                 *)

\* the functions an application registers
Callables == {"_callback_1", "_callback_2"}

\* step_list of register_pre_step and register_post_step; {} when none is
\* given
StepLists == {{}, {PULL, BUILD}, {PRIME}}

InitCallbacks == InitScriptlet

\* register_<kind>(function) and register_<kind>(function, step_list=...)
Register ==
    /\ \E kind \in HookKinds, f \in Callables, sl \in StepLists :
          /\ kind \in {"prologue", "epilogue"} => sl = {}
          /\ LET r == register(hooks, kind, f, sl)
             IN /\ hooks' = r.hooks
                /\ op' = Call("register", kind, 0, CallbackHook(f, sl), r.raised)
    /\ UNCHANGED <<executor_vars, runner_vars>>
    /\ UNCHANGED <<part_list, after, properties, project_options, source,
                   persisted, state, serial_gen, target, names, repeated,
                   before, actions, log, created, cleans>>

\* callbacks.clear()
Clear ==
    /\ hooks' = clear
    /\ op' = Call("clear", "", 0, {}, NoError)
    /\ UNCHANGED <<executor_vars, runner_vars>>
    /\ UNCHANGED <<part_list, after, properties, project_options, source,
                   persisted, state, serial_gen, target, names, repeated,
                   before, actions, log, created, cleans>>

NextCallbacks == Register \/ Clear

SpecCallbacks == InitCallbacks /\ [][NextCallbacks]_vars

----------------------------------------------------------------------------
(* _build_part on its own: it is called for a part of any name with any     *)
(* spec whose plugin is the make plugin.                                    *)

Entries ==
    {Entry("", "plugin", "make"), Entry("", "source", ""), Entry("", "after", ""),
     Entry("make", "parameters", ""), Entry("make", "jobs", ""),
     Entry("cmake", "parameters", "")}

\* the dicts of at most MaxKeys entries
PartSpecs ==
    UNION {{d \in [1..n -> Entries] : \A i, j \in 1..n : i # j => d[i] # d[j]}
              : n \in 0..MaxKeys}

InitBuildPart == InitScriptlet

\* _build_part(name, spec, project_dirs)
BuildPart ==
    /\ \E name \in {"make", "hello"}, spec \in PartSpecs :
          /\ name = "make" \/ \E i \in DOMAIN spec : spec[i].name = "plugin"
          /\ op' = Call("_build_part", name, 0, spec, build_part(name, spec))
    /\ UNCHANGED <<executor_vars, runner_vars, hooks>>
    /\ UNCHANGED <<part_list, after, properties, project_options, source,
                   persisted, state, serial_gen, target, names, repeated,
                   before, actions, log, created, cleans>>

NextBuildPart == BuildPart

SpecBuildPart == InitBuildPart /\ [][NextBuildPart]_vars

----------------------------------------------------------------------------
(* _migrate_files on its own: the built-in stage and prime call it with the *)
(* files and directories of any source tree, on any destination tree.       *)

Trees ==
    [Range(Paths) -> {Nothing, Regular("c1"), Regular("c2"), Symlink("t1"),
                      Symlink("t2"), Directory}]

InitMigrate == InitScriptlet

\* _migrate_files(files=files, dirs=dirs, srcdir=..., destdir=...) as
\* _builtin_stage and _builtin_prime call it: files and dirs are those of the
\* source tree, missing_ok and follow_symlinks are False
MigrateFiles ==
    /\ \E src \in Trees, dst \in Trees :
          LET files == {n \in Range(Paths) : src[n].kind \in {"file", "symlink"}}
              dirnames == {n \in Range(Paths) : src[n].kind = "dir"}
          IN op' = Call("_migrate_files", "", 0, [src |-> src, dst |-> dst, files |-> files],
                        migrate_files(files, dirnames, src, dst, FALSE, FALSE))
    /\ UNCHANGED <<executor_vars, runner_vars, hooks>>
    /\ UNCHANGED <<part_list, after, properties, project_options, source,
                   persisted, state, serial_gen, target, names, repeated,
                   before, actions, log, created, cleans>>

NextMigrate == MigrateFiles

SpecMigrate == InitMigrate /\ [][NextMigrate]_vars

----------------------------------------------------------------------------
(* The process that plans again: plan() is called with any arguments, and   *)
(* once more after a plan that created wrappers, directly or after one      *)
(* clean_part() or one reload_state().  The source of a part may have       *)
(* changed.                                                                 *)

InitUpdate ==
    InitOf(TwoParts, HistoriesSM(TwoParts),
           {[p \in DOMAIN TwoParts |-> IF p = c THEN "changed" ELSE "unchanged"] :
               c \in DOMAIN TwoParts \cup {""}})

\* the last call was a plan() on a StateManager that had issued less than
\* MaxSerial serials
FirstPlans == op.name = "plan" /\ before.serial_gen < MaxSerial

PlanUpdate ==
    /\ \/ target = 0
       \/ op.name \in {"clean_part", "reload_state"}
       \/ FirstPlans /\ Len(created) = serial_gen
    /\ \E t \in Steps, ns \in SUBSET DOMAIN after, o \in SetOrders :
          PlanCall(t, ns, o)

CleanUpdate == FirstPlans /\ Len(created) = serial_gen /\ CleanPart

ReloadUpdate == FirstPlans /\ cleans = 0 /\ ReloadState

NextUpdate == PlanUpdate \/ CleanUpdate \/ ReloadUpdate

SpecUpdate == InitUpdate /\ [][NextUpdate]_vars

----------------------------------------------------------------------------
(* What the claims speak about *)

\* a plan() call has returned
Planned == target # 0

NoStoredState(sm) == \A p \in DOMAIN sm.state : DOMAIN sm.state[p] = {}

\* the types of the actions the plan holds for (p, s)
TypesOf(p, s) ==
    {actions[i].action_type :
        i \in {j \in DOMAIN actions :
                 actions[j].part_name = p /\ actions[j].step = s}}

Runs(i) == actions[i].action_type \in {RUN, RERUN}

----------------------------------------------------------------------------
(* C5  Fresh plan: with no stored state and no part names, plan(PRIME) is   *)
(* exactly one RUN per (part, step), step by step and within a step in the  *)
(* order of the sorted part list, which puts every part after the parts it  *)
(* depends on; for A and B (B after A) it is RUN A:PULL, B:PULL, A:BUILD,   *)
(* B:BUILD, A:STAGE, B:STAGE, A:PRIME, B:PRIME.                             *)

FreshPlanCase ==
    Planned /\ target = PRIME /\ names = {} /\ NoStoredState(before)

C5_FreshPlan ==
    FreshPlanCase =>
        LET n == Len(part_list) IN
        /\ \A i, j \in DOMAIN part_list :
              part_list[i] \in after[part_list[j]] => i < j
        /\ actions = [i \in 1..(PRIME * n) |->
                        Action(part_list[((i - 1) % n) + 1], ((i - 1) \div n) + 1,
                               RUN, NoReason)]
        /\ after = TwoParts =>
              [i \in DOMAIN actions |-> <<actions[i].action_type,
                                          actions[i].part_name, actions[i].step>>]
              = << <<RUN, "A", PULL>>, <<RUN, "B", PULL>>,
                   <<RUN, "A", BUILD>>, <<RUN, "B", BUILD>>,
                   <<RUN, "A", STAGE>>, <<RUN, "B", STAGE>>,
                   <<RUN, "A", PRIME>>, <<RUN, "B", PRIME>> >>

C5_Witness ==
    FreshPlanCase /\ Len(part_list) = 3 /\ Len(actions) = 12

----------------------------------------------------------------------------
(* C1  Every _add_step_actions call, of the plan itself or of a dependency  *)
(* preparation, takes the first rule that matches the StateManager it       *)
(* starts from: (1) no stored state: RUN; (2) part names given, the step is *)
(* the target and the part is named: RERUN; (3) a dirty report: RERUN with  *)
(* the report as reason, and afterwards no later step of the part has       *)
(* state and the step has a new wrapper; (4) an outdated report: UPDATE for *)
(* PULL and BUILD, RERUN otherwise, and the wrapper is marked updated;      *)
(* (5) otherwise SKIP, "already ran".  The plan makes one such call for     *)
(* every selected part and every step up to the target.                     *)

ExplicitlyRequested(d) ==
    d.part_names # {} /\ d.step = d.target_step /\ d.part \in d.part_names

RuleOf(d) ==
    IF d.step \notin DOMAIN d.pre.state[d.part] THEN 1
    ELSE IF ExplicitlyRequested(d) THEN 2
    ELSE IF dirty_report(d.pre, d.part, d.step) # NoDirtyReport THEN 3
    ELSE IF outdated_report(d.pre, d.part, d.step) # NoOutdatedReport THEN 4
    ELSE 5

\* the calls the plan makes itself, not those of a dependency preparation
TopLevel == {i \in DOMAIN log : log[i].reason = NoReason}

RuleFollowed(d) ==
    LET a == actions[d.idx]
        rule == RuleOf(d)
        post == d.post.state[d.part]
    IN /\ a.part_name = d.part /\ a.step = d.step
       /\ rule = 1 => a.action_type = RUN
       /\ rule = 2 => a.action_type = RERUN
       /\ rule = 3 =>
            /\ a.action_type = RERUN
            /\ a.reason = DirtySummary(dirty_report(d.pre, d.part, d.step))
            /\ DOMAIN post = 1..d.step
            /\ post[d.step].serial > d.pre.serial_gen
       /\ rule = 4 =>
            /\ a.action_type = IF d.step \in {PULL, BUILD} THEN UPDATE ELSE RERUN
            /\ a.reason = OutdatedSummary(outdated_report(d.pre, d.part, d.step))
            /\ post[d.step].updated
       /\ rule = 5 => a.action_type = SKIP /\ a.reason = AlreadyRan

C1_FirstMatchingRule ==
    Planned =>
        /\ \A i \in DOMAIN log : RuleFollowed(log[i])
        /\ \A p \in Range(part_list_by_name(names, part_list)), s \in 1..target :
              Cardinality({i \in TopLevel : log[i].part = p /\ log[i].step = s}) = 1

C1_Witness ==
    /\ Planned
    /\ \A rule \in 1..5 : \E i \in DOMAIN log : RuleOf(log[i]) = rule
    /\ \E i \in DOMAIN log :
          /\ RuleOf(log[i]) = 3
          /\ outdated_report(log[i].pre, log[i].part, log[i].step) # NoOutdatedReport

----------------------------------------------------------------------------
(* C2  The original statement: a plan() call with the arguments of the call *)
(* before it, nothing changed in between, returns only SKIP actions.        *)

SourceChangePending(sm) ==
    \E p \in DOMAIN sm.state :
        /\ PULL \in DOMAIN sm.state[p]
        /\ source[p] = "changed"
        /\ ~sm.state[p][PULL].updated

----------------------------------------------------------------------------
(* C3  Topological emission: for every dependency edge d -> p, no RUN or    *)
(* RERUN of (d, STAGE) comes after a RUN or RERUN of (p, STAGE) or          *)
(* (p, PRIME) in the plan.                                                  *)

C3_TopologicalEmission ==
    Planned =>
        \A p \in DOMAIN after : \A d \in after[p] :
            \A i, j \in DOMAIN actions :
                ( /\ Runs(i) /\ actions[i].part_name = p
                  /\ actions[i].step \in {STAGE, PRIME}
                  /\ Runs(j) /\ actions[j].part_name = d
                  /\ actions[j].step = STAGE ) => j < i

----------------------------------------------------------------------------
(* C4  Determinism: whatever order the process iterates over the set of     *)
(* dependencies to prepare, plan() returns the same list of actions from    *)
(* the same stored state and the same arguments.                            *)

C4_DeterministicPlan ==
    Planned => \A o \in SetOrders : plan(before, target, names, o).actions = actions

----------------------------------------------------------------------------
(* C6  The original statement: no action of the plan for a step comes after *)
(* an action for a later step.                                              *)

C6_BreadthFirst ==
    Planned =>
        \A i, j \in DOMAIN actions : i < j => actions[i].step <= actions[j].step

(* C6  As amended: the actions plan() emits in its own loop over the        *)
(* selected parts are in step order, all selected parts advancing through   *)
(* a step before any advances to the next, and a plan in which dependency   *)
(* preparation inserts nothing is in step order as a whole; the actions     *)
(* that dependency preparation inserts are not in step order with the rest. *)

C6_BreadthFirstOwnLoop ==
    Planned =>
        /\ \A i, j \in TopLevel :
              i < j => log[i].step <= log[j].step /\ log[i].idx < log[j].idx
        /\ TopLevel = DOMAIN log =>
              \A i, j \in DOMAIN actions :
                  i < j => actions[i].step <= actions[j].step

\* a named part whose dependency is prepared: PULL of the dependency comes
\* after BUILD of the part
C6_Witness ==
    /\ Planned /\ names # {}
    /\ \A i, j \in TopLevel : i < j => log[i].step <= log[j].step
    /\ \E i, j \in DOMAIN actions :
          /\ i < j
          /\ actions[i].step = BUILD /\ actions[i].part_name \in names
          /\ actions[j].step = PULL /\ actions[j].part_name \notin names
          /\ actions[j].reason.text = "required to"

----------------------------------------------------------------------------
(* C7  The original statement: after all four steps of part p have run, a   *)
(* change of a property of interest of step s makes plan(PRIME) emit RERUN  *)
(* for (p, s) and RERUN for every later step of p.                          *)

\* every step of p has state, stored before the property of step s changed
EditedAfterRun(sm, p, s) ==
    \A s2 \in Steps :
        /\ s2 \in DOMAIN sm.state[p]
        /\ {k \in Steps : sm.state[p][s2].state.part_properties[k] # properties[p][k]}
              = {s}

C7_DirtyCausesRerun ==
    \A p \in DOMAIN after, s \in Steps :
        (Planned /\ target = PRIME /\ names = {} /\ EditedAfterRun(before, p, s)) =>
            /\ RERUN \in TypesOf(p, s)
            /\ \A s2 \in Steps : s2 > s => TypesOf(p, s2) = {RERUN}

(* C7  As amended: ... makes a plan(PRIME) that selects p emit, unless it   *)
(* first runs or re-runs an earlier step of p, RERUN as the first action    *)
(* for (p, s) and RUN, not RERUN and not SKIP, as the first action for      *)
(* every later step of p, whose state the RERUN removed.                    *)

\* the type of the first action the plan holds for (p, s)
FirstTypeOf(p, s) ==
    LET at == {j \in DOMAIN actions :
                 actions[j].part_name = p /\ actions[j].step = s}
    IN actions[CHOOSE j \in at : \A k \in at : j <= k].action_type

C7Case(p, s) ==
    /\ Planned /\ target = PRIME /\ (names = {} \/ p \in names)
    /\ EditedAfterRun(before, p, s)
    /\ \A s1 \in Steps : s1 < s => FirstTypeOf(p, s1) \notin {RUN, RERUN}

C7_DirtyCausesRerunThenRun ==
    \A p \in DOMAIN after, s \in Steps :
        C7Case(p, s) =>
            /\ FirstTypeOf(p, s) = RERUN
            /\ \A s2 \in Steps : s2 > s => FirstTypeOf(p, s2) = RUN

C7_Witness ==
    \E p \in DOMAIN after :
        /\ C7Case(p, BUILD) /\ names = {}
        /\ TypesOf(p, PULL) = {SKIP} /\ TypesOf(p, BUILD) = {RERUN}
        /\ TypesOf(p, STAGE) = {RUN} /\ TypesOf(p, PRIME) = {RUN}

----------------------------------------------------------------------------
(* C8  The original statement: a PULL step that has stored state, is not    *)
(* dirty, is not the explicitly requested target and whose source handler   *)
(* check() returns true gets UPDATE, and no stored state of the part is     *)
(* removed.                                                                 *)

OutdatedPullCase(d) ==
    /\ d.step = PULL
    /\ PULL \in DOMAIN d.pre.state[d.part]
    /\ dirty_report(d.pre, d.part, PULL) = NoDirtyReport
    /\ ~ExplicitlyRequested(d)
    /\ source[d.part] = "changed"

UpdatedInPlace(d) ==
    /\ actions[d.idx].part_name = d.part /\ actions[d.idx].step = PULL
    /\ actions[d.idx].action_type = UPDATE
    /\ \A s \in Steps :
          s \in DOMAIN d.pre.state[d.part] => s \in DOMAIN d.post.state[d.part]

C8_OutdatedPullUpdates ==
    Planned => \A i \in DOMAIN log : OutdatedPullCase(log[i]) => UpdatedInPlace(log[i])

(* C8  As amended: ... and whose wrapper is not already marked updated gets *)
(* UPDATE, not RERUN, and no stored state of the part is removed; once the  *)
(* wrapper is marked updated the step gets SKIP, check() still true.        *)

C8_OutdatedPullUpdatesOnce ==
    Planned =>
        \A i \in DOMAIN log :
            OutdatedPullCase(log[i]) =>
                IF log[i].pre.state[log[i].part][PULL].updated
                THEN actions[log[i].idx].action_type = SKIP
                ELSE UpdatedInPlace(log[i])

C8_Witness ==
    /\ Planned
    /\ \E i \in DOMAIN log :
          /\ OutdatedPullCase(log[i])
          /\ ~log[i].pre.state[log[i].part][PULL].updated
          /\ PRIME \in DOMAIN log[i].pre.state[log[i].part]
          /\ UpdatedInPlace(log[i])

----------------------------------------------------------------------------
(* C9  The original statement: A and B (B after A) have run all steps and   *)
(* the source handler of A reports a change; plan(PRIME) emits UPDATE for   *)
(* A:PULL, RERUN for A:BUILD, A:STAGE and A:PRIME, and RERUN for B:STAGE    *)
(* and B:PRIME.                                                             *)

OutdatedPullScenario ==
    /\ Planned /\ after = TwoParts /\ target = PRIME /\ names = {}
    /\ source = [p \in {"A", "B"} |-> IF p = "A" THEN "changed" ELSE "unchanged"]
    /\ \A p \in {"A", "B"}, s \in Steps :
          /\ s \in DOMAIN before.state[p]
          /\ dirty_report_for_part(before, p, s) = NoDirtyReport
          /\ ~before.state[p][s].updated

C9_OutdatedPullScenario ==
    OutdatedPullScenario =>
        /\ TypesOf("A", PULL) = {UPDATE}
        /\ TypesOf("A", BUILD) = {RERUN}
        /\ TypesOf("A", STAGE) = {RERUN}
        /\ TypesOf("A", PRIME) = {RERUN}
        /\ TypesOf("B", STAGE) = {RERUN}
        /\ TypesOf("B", PRIME) = {RERUN}

(* C9  As amended: plan(PRIME) emits UPDATE for A:PULL and for A:BUILD,     *)
(* RERUN for A:STAGE, RUN for A:PRIME (its state was removed by the RERUN   *)
(* of A:STAGE), RERUN for B:STAGE and RUN for B:PRIME.                      *)

C9_OutdatedPullScenarioAsPlanned ==
    OutdatedPullScenario =>
        /\ TypesOf("A", PULL) = {UPDATE}
        /\ TypesOf("A", BUILD) = {UPDATE}
        /\ TypesOf("A", STAGE) = {RERUN}
        /\ TypesOf("A", PRIME) = {RUN}
        /\ TypesOf("B", PULL) \subseteq {SKIP, UPDATE}
        /\ TypesOf("B", BUILD) \subseteq {SKIP, UPDATE}
        /\ TypesOf("B", STAGE) = {RERUN}
        /\ TypesOf("B", PRIME) = {RUN}

C9_Witness ==
    /\ OutdatedPullScenario
    /\ before.serial_gen = 0
    /\ [i \in DOMAIN actions |-> actions[i].action_type]
          = <<UPDATE, SKIP, UPDATE, SKIP, RERUN, RERUN, RUN, RUN>>

----------------------------------------------------------------------------
(* C10  The original statement: when a plan writes the STAGE state of d     *)
(* again (RUN or RERUN) and p, which depends on d directly or transitively, *)
(* has stored STAGE and PRIME state, dirty_report(p, STAGE) and             *)
(* dirty_report(p, PRIME) each list d at STAGE as a changed dependency.     *)

\* the calls that ran or re-ran STAGE of a dependency of p while p has
\* stored STAGE and PRIME state
Restaged(p) ==
    {i \in DOMAIN log :
        /\ log[i].step = STAGE
        /\ actions[log[i].idx].action_type \in {RUN, RERUN}
        /\ log[i].part \in part_dependencies(p, TRUE)
        /\ {STAGE, PRIME} \subseteq DOMAIN log[i].post.state[p]}

C10_DependencyPropagation ==
    Planned =>
        \A p \in DOMAIN after : \A i \in Restaged(p) : \A s \in {STAGE, PRIME} :
            Dependency(log[i].part, STAGE)
                \in dirty_report(log[i].post, p, s).changed_dependencies

(* C10  As amended: ... p is dirty at STAGE and at PRIME; the report lists  *)
(* d at STAGE as a changed dependency when the properties and project       *)
(* options of interest of that step of p are unchanged, and lists only the  *)
(* changed properties and options otherwise.                                *)

C10_DependencyPropagationOrOwnChange ==
    Planned =>
        \A p \in DOMAIN after : \A i \in Restaged(p) : \A s \in {STAGE, PRIME} :
            LET own == dirty_report_for_part(log[i].post, p, s)
                report == dirty_report(log[i].post, p, s)
            IN /\ report # NoDirtyReport
               /\ own = NoDirtyReport =>
                     Dependency(log[i].part, STAGE) \in report.changed_dependencies
               /\ own # NoDirtyReport => report = own

C10_Witness ==
    /\ Planned
    /\ \E p \in DOMAIN after : \E i \in Restaged(p) :
          /\ log[i].part \notin after[p]
          /\ log[i].post.state[p][STAGE].timestamp # 0
          /\ \A s \in {STAGE, PRIME} :
                Dependency(log[i].part, STAGE)
                    \in dirty_report(log[i].post, p, s).changed_dependencies

----------------------------------------------------------------------------
(* C11  Explicit rerun of the target step: after every step of every part  *)
(* has run and nothing has changed since, plan(s, [p]) with s PULL or BUILD *)
(* is SKIP "already ran" for the steps of p before s, then RERUN "requested *)
(* step" for (p, s), and holds no action for any other part, the parts      *)
(* that depend on p included.                                               *)

\* every step of every part has state, stored with the properties and the
\* project options as they are now, and no source has changed
AllRanNothingChanged(sm) ==
    \A p \in DOMAIN after :
        /\ source[p] = "unchanged"
        /\ \A s \in Steps :
              /\ s \in DOMAIN sm.state[p]
              /\ sm.state[p][s].state = PartState(properties[p], project_options)

C11_ExplicitRerun ==
    \A p \in DOMAIN after, s \in {PULL, BUILD} :
        (Planned /\ target = s /\ names = {p} /\ AllRanNothingChanged(before)) =>
            actions = [i \in 1..s |->
                         IF i < s THEN Action(p, i, SKIP, AlreadyRan)
                         ELSE Action(p, s, RERUN, RequestedStep)]

\* BUILD of a part another part depends on
C11_Witness ==
    /\ Planned /\ target = BUILD /\ AllRanNothingChanged(before)
    /\ \E p, q \in DOMAIN after : names = {p} /\ p \in after[q]
    /\ Len(actions) = 2 /\ actions[2].action_type = RERUN

----------------------------------------------------------------------------
(* C12  State prefix invariant: from state files that form a prefix of the  *)
(* steps of every part, after any plan() and clean_part() calls, every      *)
(* (part, step) that has stored state has stored state for every earlier    *)
(* step of the part.                                                        *)

StatePrefix(sm) ==
    \A p \in DOMAIN sm.state : \A s \in DOMAIN sm.state[p] :
        \A e \in Range(previous_steps(s)) : e \in DOMAIN sm.state[p]

C12_StatePrefix == StatePrefix([state |-> state, serial_gen |-> serial_gen])

\* a part was cleaned to a proper prefix of its steps and a plan that runs
\* steps again was made
C12_Witness ==
    /\ Planned /\ cleans > 0
    /\ \E i \in DOMAIN actions : actions[i].action_type = RERUN
    /\ \E p \in DOMAIN after : DOMAIN state[p] = {PULL, BUILD}
    /\ \E p \in DOMAIN after : DOMAIN state[p] = Steps

----------------------------------------------------------------------------
(* C13  Clean cascade: clean_part(p, s) removes the wrappers of (p, s) and  *)
(* of every later step of p, and leaves unchanged the wrappers of the       *)
(* earlier steps of p and every wrapper of every other part.                *)

C13_CleanCascade ==
    op.name = "clean_part" =>
        /\ \A s \in Steps : s >= op.step => s \notin DOMAIN state[op.part]
        /\ \A s \in Steps : s < op.step =>
              /\ s \in DOMAIN state[op.part] <=> s \in DOMAIN before.state[op.part]
              /\ s \in DOMAIN state[op.part] =>
                    state[op.part][s] = before.state[op.part][s]
        /\ \A q \in DOMAIN after \ {op.part} : state[q] = before.state[q]
        /\ serial_gen = before.serial_gen

\* BUILD of a part is cleaned while the part holds a wrapper created by this
\* process for an earlier step, and wrappers for the later steps
C13_Witness ==
    /\ op.name = "clean_part" /\ op.step = BUILD
    /\ DOMAIN before.state[op.part] = Steps
    /\ before.state[op.part][PULL].serial # 0
    /\ DOMAIN state[op.part] = {PULL}
    /\ \E q \in DOMAIN after \ {op.part} : DOMAIN state[q] = Steps

----------------------------------------------------------------------------
(* C14  a.is_newer_than(b): both carry a timestamp: true iff the timestamp  *)
(* of a is greater; a has a timestamp and b has none: false; a has none and *)
(* b has one: true; neither has one: true iff the serial of a is greater.   *)
(* So a wrapper created by this process is newer than the wrapper of any    *)
(* state file, and the wrapper of a state file is never newer than it.      *)

C14_NewerThanRules ==
    op.name = "is_newer_than" =>
        LET a == op.arg[1]
            b == op.arg[2]
        IN /\ (a.timestamp # 0 /\ b.timestamp # 0) =>
                 (op.result <=> a.timestamp > b.timestamp)
           /\ (a.timestamp # 0 /\ b.timestamp = 0) => ~op.result
           /\ (a.timestamp = 0 /\ b.timestamp # 0) => op.result
           /\ (a.timestamp = 0 /\ b.timestamp = 0) =>
                 (op.result <=> a.serial > b.serial)

\* the first wrapper of the process against the latest state file
C14_Witness ==
    /\ op.name = "is_newer_than"
    /\ op.arg[1].serial = 1
    /\ op.arg[2].timestamp = MaxTime
    /\ op.result

----------------------------------------------------------------------------
(* C15  Newer-than totality: over the wrappers the StateManager holds,      *)
(* those loaded from state files and those created by set_state,            *)
(* update_state_timestamp and mark_step_updated, is_newer_than is           *)
(* irreflexive, asymmetric and transitive, and of any two distinct wrappers *)
(* exactly one is newer than the other.                                     *)

\* the (part, step) pairs whose wrapper the StateManager holds
Held(sm) == {k \in (DOMAIN sm.state) \X Steps : k[2] \in DOMAIN sm.state[k[1]]}

Newer(sm, k, l) == is_newer_than(sm.state[k[1]][k[2]], sm.state[l[1]][l[2]])

StrictPartialOrder(sm) ==
    /\ \A k \in Held(sm) : ~Newer(sm, k, k)
    /\ \A k, l \in Held(sm) : Newer(sm, k, l) => ~Newer(sm, l, k)
    /\ \A k, l, m \in Held(sm) :
          (Newer(sm, k, l) /\ Newer(sm, l, m)) => Newer(sm, k, m)

C15_StrictTotalOrder ==
    LET sm == [state |-> state, serial_gen |-> serial_gen]
    IN /\ StrictPartialOrder(sm)
       /\ \A k, l \in Held(sm) :
             k # l => (Newer(sm, k, l) /\ ~Newer(sm, l, k))
                      \/ (Newer(sm, l, k) /\ ~Newer(sm, k, l))

----------------------------------------------------------------------------
(* C16  Monotone serials: of any two wrappers this process created by       *)
(* set_state, update_state_timestamp or mark_step_updated, the one created  *)
(* later has the strictly greater serial, wrappers created before and after *)
(* reload_state() included.                                                 *)

C16_MonotoneSerials ==
    \A i, j \in DOMAIN created : i < j => created[i] < created[j]

----------------------------------------------------------------------------
(* C17  Every wrapper the StateManager holds carries exactly one of a       *)
(* timestamp and a non-zero serial, after any load, set_state,              *)
(* update_state_timestamp, mark_step_updated and clean_part; the            *)
(* constructor raises InternalError when it is given both or neither, and   *)
(* only then.                                                               *)

C17_TimestampXorSerial ==
    /\ \A p \in DOMAIN state : \A s \in DOMAIN state[p] :
          (state[p][s].timestamp # 0) # (state[p][s].serial # 0)
    /\ op.name = "_StateWrapper" =>
          LET timestamp == op.arg[1]
              serial == op.arg[2]
          IN /\ op.result = {} <=>
                   \/ (timestamp # 0 /\ serial # 0)
                   \/ (timestamp = 0 /\ serial = 0)
             /\ \A w \in op.result : w.timestamp = timestamp /\ w.serial = serial

\* after a clean and a mark_step_updated the StateManager holds wrappers of
\* state files and a wrapper of its own
C17_Witness ==
    /\ cleans > 0
    /\ op.name = "mark_step_updated"
    /\ \E p \in DOMAIN state : \E s \in DOMAIN state[p] :
          state[p][s].serial # 0 /\ state[p][s].updated
    /\ \E p \in DOMAIN state : \E s \in DOMAIN state[p] : state[p][s].timestamp # 0

----------------------------------------------------------------------------
(* C18  should_step_run(p, s) is true iff the step s or an earlier step of  *)
(* p has no stored state, or has state and a dirty report, or has state and *)
(* an outdated report; it is false otherwise, and no InternalError leaves   *)
(* it, whether the step has stored state or not.                            *)

NeedsRun(sm, p, e) ==
    \/ ~has_step_run(sm, p, e)
    \/ /\ has_step_run(sm, p, e)
       /\ \/ dirty_report(sm, p, e) # NoDirtyReport
          \/ outdated_report(sm, p, e) # NoOutdatedReport

C18_ShouldStepRun ==
    LET sm == [state |-> state, serial_gen |-> serial_gen]
    IN \A p \in DOMAIN after :
          \E needs \in {{e \in Steps : NeedsRun(sm, p, e)}} :
             \A s \in Steps :
                /\ should_step_run(sm, p, s) <=> \E e \in needs : e <= s
                /\ ~should_step_run_raises(sm, p, s)

\* after a plan: PRIME of a part has state and neither report, an earlier
\* step of the part needs to run, and a step of another part does not need
\* to; and a step without state is asked about
C18_Witness ==
    LET sm == [state |-> state, serial_gen |-> serial_gen]
    IN /\ Planned
       /\ \E p \in DOMAIN after :
             /\ ~NeedsRun(sm, p, PRIME)
             /\ should_step_run(sm, p, PRIME)
       /\ \E q \in DOMAIN after, s \in Steps : ~should_step_run(sm, q, s)
       /\ \E q \in DOMAIN after, s \in Steps : ~has_step_run(sm, q, s)

----------------------------------------------------------------------------
(* C19  Dirty predicate, dependency part: for STAGE and PRIME of a part p   *)
(* that has stored state there and no difference in the properties and      *)
(* project options of interest, dirty_report(p, step) lists exactly the     *)
(* transitive dependencies d of p whose STAGE wrapper is newer than the     *)
(* wrapper of (p, step) or for which should_step_run(d, STAGE) holds, and   *)
(* is no report when there is none; for PULL and BUILD the report never     *)
(* names a dependency.                                                      *)

\* the parts reached from the parts S along the after relation
RECURSIVE Closure(_)
Closure(S) ==
    LET more == S \cup UNION {after[x] : x \in S}
    IN IF more = S THEN S ELSE Closure(more)

TransitiveDependencies(p) == Closure(after[p])

ChangedDependencies(sm, p, step) ==
    {d \in TransitiveDependencies(p) :
        \/ /\ has_step_run(sm, d, STAGE)
           /\ is_newer_than(sm.state[d][STAGE], sm.state[p][step])
        \/ should_step_run(sm, d, STAGE)}

C19_DirtyDependencies ==
    LET sm == [state |-> state, serial_gen |-> serial_gen]
    IN \A p \in DOMAIN after :
          /\ \A step \in {STAGE, PRIME} :
                (/\ has_step_run(sm, p, step)
                 /\ dirty_report_for_part(sm, p, step) = NoDirtyReport) =>
                    dirty_report(sm, p, step) =
                        DirtyReport({}, {},
                            {Dependency(d, STAGE) :
                                d \in ChangedDependencies(sm, p, step)})
          /\ \A step \in {PULL, BUILD} :
                dirty_report(sm, p, step).changed_dependencies = {}

\* after a plan, the report of STAGE of a part names a dependency of a
\* dependency that has a STAGE wrapper and need not run: its wrapper is
\* newer; and PRIME of some part with dependencies has no report
C19_Witness ==
    LET sm == [state |-> state, serial_gen |-> serial_gen]
    IN /\ Planned
       /\ \E p \in DOMAIN after :
             \E d \in TransitiveDependencies(p) \ after[p] :
                /\ has_step_run(sm, p, STAGE)
                /\ dirty_report_for_part(sm, p, STAGE) = NoDirtyReport
                /\ has_step_run(sm, d, STAGE)
                /\ ~should_step_run(sm, d, STAGE)
                /\ Dependency(d, STAGE)
                      \in dirty_report(sm, p, STAGE).changed_dependencies

----------------------------------------------------------------------------
(* C20  Outdated predicate for BUILD, STAGE and PRIME: outdated_report(p, s) *)
(* is a report iff (p, s) has stored state, its wrapper is not marked       *)
(* updated, and an earlier step of p has a wrapper that is newer than the   *)
(* wrapper of (p, s); a step marked updated has no report whatever the      *)
(* other wrappers are.                                                      *)

EarlierStepNewer(sm, p, s) ==
    \E e \in Range(previous_steps(s)) :
        /\ has_step_run(sm, p, e)
        /\ is_newer_than(sm.state[p][e], sm.state[p][s])

C20_OutdatedReport ==
    LET sm == [state |-> state, serial_gen |-> serial_gen]
        p == op.part
        s == op.step
    IN (op.name = "outdated_report" /\ s \in {BUILD, STAGE, PRIME}) =>
          /\ op.result # NoOutdatedReport <=>
                /\ has_step_run(sm, p, s)
                /\ ~sm.state[p][s].updated
                /\ EarlierStepNewer(sm, p, s)
          /\ (has_step_run(sm, p, s) /\ sm.state[p][s].updated) =>
                op.result = NoOutdatedReport

\* STAGE is marked updated and an earlier step was written after it
C20_Witness ==
    LET sm == [state |-> state, serial_gen |-> serial_gen]
    IN /\ op.name = "outdated_report" /\ op.step = STAGE
       /\ has_step_run(sm, op.part, STAGE)
       /\ sm.state[op.part][STAGE].updated
       /\ EarlierStepNewer(sm, op.part, STAGE)
       /\ op.result = NoOutdatedReport

----------------------------------------------------------------------------
(* C21  Outdated predicate for PULL: outdated_report(p, PULL) is a          *)
(* source-updated report iff (p, PULL) has stored state that is not marked  *)
(* updated and check() of the source handler of p returns true; without a   *)
(* source handler, and with one whose check() raises                        *)
(* SourceUpdateUnsupported, there is no report and no error.                *)

C21_OutdatedPull ==
    LET sm == [state |-> state, serial_gen |-> serial_gen]
        p == op.part
    IN (op.name = "outdated_report" /\ op.step = PULL) =>
          /\ op.result \in {NoOutdatedReport, OutdatedReport(TRUE, 0)}
          /\ op.result = OutdatedReport(TRUE, 0) <=>
                /\ has_step_run(sm, p, PULL)
                /\ ~sm.state[p][PULL].updated
                /\ source[p] = "changed"
          /\ source[p] \in {"no handler", "unsupported"} =>
                op.result = NoOutdatedReport

\* PULL has a wrapper that is not marked updated and the handler cannot check
C21_Witness ==
    LET sm == [state |-> state, serial_gen |-> serial_gen]
    IN /\ op.name = "outdated_report" /\ op.step = PULL
       /\ has_step_run(sm, op.part, PULL)
       /\ ~sm.state[op.part][PULL].updated
       /\ source[op.part] = "unsupported"
       /\ op.result = NoOutdatedReport

----------------------------------------------------------------------------
(* C22  Synthetic state write: when an _add_step_actions call that appended *)
(* a RUN or RERUN action for (p, s) returns, the StateManager holds for     *)
(* (p, s) a wrapper with a serial and no timestamp, built from the current  *)
(* properties of the part and the current project options; and for the rest *)
(* of the plan() call has_step_run(p, s) is true and the properties and     *)
(* options of interest show no difference.                                  *)

\* the _add_step_actions calls that appended a RUN or RERUN action
Ran == {i \in DOMAIN log : actions[log[i].idx].action_type \in {RUN, RERUN}}

SyntheticState(sm, p, s) ==
    /\ has_step_run(sm, p, s)
    /\ sm.state[p][s].timestamp = 0
    /\ sm.state[p][s].serial # 0
    /\ sm.state[p][s].state = PartState(properties[p], project_options)

SeenAsRun(sm, p, s) ==
    /\ has_step_run(sm, p, s)
    /\ dirty_report_for_part(sm, p, s) = NoDirtyReport

\* the call j started after the call i returned
StartedAfter(j, i) == log[j].pre.serial_gen >= log[i].post.serial_gen

C22_SyntheticStateWrite ==
    \A i \in Ran :
        /\ SyntheticState(log[i].post, log[i].part, log[i].step)
        /\ \A j \in DOMAIN log :
              j > i =>
                 /\ SeenAsRun(log[j].post, log[i].part, log[i].step)
                 /\ StartedAfter(j, i) =>
                       SeenAsRun(log[j].pre, log[i].part, log[i].step)
        /\ SeenAsRun([state |-> state, serial_gen |-> serial_gen],
                     log[i].part, log[i].step)

\* a step whose stored state differs in a property of interest is re-run,
\* and the plan goes on to a later call for the same part
C22_Witness ==
    /\ Planned
    /\ \E i \in Ran :
          /\ actions[log[i].idx].action_type = RERUN
          /\ has_step_run(before, log[i].part, log[i].step)
          /\ before.state[log[i].part][log[i].step].timestamp # 0
          /\ dirty_report_for_part(before, log[i].part, log[i].step) # NoDirtyReport
          /\ \E j \in DOMAIN log :
                j > i /\ StartedAfter(j, i) /\ log[j].part = log[i].part

----------------------------------------------------------------------------
(* C23  Prepare: when the plan holds a RUN or RERUN action for (p, STAGE)   *)
(* or (p, PRIME), then at that action every transitive dependency d of p   *)
(* has stored STAGE state and should_step_run(d, STAGE) is false; the       *)
(* actions inserted to get there carry the reason "required to stage 'p'"   *)
(* or "required to prime 'p'"; no dependency action is inserted before a    *)
(* PULL or BUILD action.                                                    *)

\* the _add_step_actions calls made to prepare a dependency
Inserted == {k \in DOMAIN log : log[k].reason # NoReason}

DependenciesReady(sm, p) ==
    \A d \in TransitiveDependencies(p) :
        has_step_run(sm, d, STAGE) /\ ~should_step_run(sm, d, STAGE)

C23_ReadyAtAction ==
    \A i \in Ran :
        log[i].step \in {STAGE, PRIME} => DependenciesReady(log[i].post, log[i].part)

C23_InsertedReasons ==
    \A k \in Inserted :
        /\ log[k].reason.text = "required to"
        /\ actions[log[k].idx].reason = log[k].reason

C23_NothingBeforePullBuild ==
    \A k \in Inserted : log[k].reason.step \in {STAGE, PRIME}

C23_Prepare ==
    /\ C23_ReadyAtAction
    /\ C23_InsertedReasons
    /\ C23_NothingBeforePullBuild

----------------------------------------------------------------------------
(* C24 *)

\* C24: a plan() call, of the Sequencer or of the LifecycleManager, with or
\* without base packages, changes in-memory state only: the state files and
\* the parts, stage and prime directories are after the call what they were
\* before it.
C24_PlanIsPure ==
    [][op'.name \in {"plan", "LifecycleManager.plan"} =>
          (persisted' = persisted /\ dirs' = dirs)]_vars

----------------------------------------------------------------------------
(* C25 *)

\* C25: Executor.run_action with a SKIP action, for any part and any step,
\* STAGE too, returns without raising; it makes no call (no stage collision
\* check, no part handler created or run) and leaves the handlers, the
\* directories, the state files and the StateManager as they were.
C25_SkipHasNoEffect ==
    [][(op'.name = "run_action" /\ op'.arg.action_type = SKIP) =>
          /\ op'.result = NoError
          /\ calls' = <<>>
          /\ handler' = handler
          /\ UNCHANGED <<dirs, persisted, state, serial_gen>>]_vars

\* a SKIP of STAGE returned, for a part without a handler, while two parts
\* collide in the stage directory
C25_Witness ==
    /\ op.name = "run_action"
    /\ op.arg.action_type = SKIP
    /\ op.step = STAGE
    /\ op.arg.conflict
    /\ op.part \notin handler
    /\ calls = <<>>
    /\ op.result = NoError

----------------------------------------------------------------------------
(* C26 *)

\* C26: for every action of STAGE that is not a SKIP, run_action calls the
\* collision check first and the part handler runs the action after it; when
\* the check raises PartFilesConflict the handler does not run the action,
\* the directories and the state files are what they were.
C26_CollisionCheckFirst ==
    [][(op'.name = "run_action" /\ op'.arg.action_type # SKIP /\ op'.step = STAGE) =>
          /\ calls' # <<>>
          /\ calls'[1].name = "check_for_stage_collisions"
          /\ \A i \in DOMAIN calls' : calls'[i].name = "check_for_stage_collisions" => i = 1
          /\ (op'.result = "PartFilesConflict") <=> op'.arg.conflict
          /\ IF op'.arg.conflict
             THEN /\ \A i \in DOMAIN calls' : calls'[i].name # "run_action"
                  /\ UNCHANGED <<dirs, persisted>>
             ELSE /\ calls'[Len(calls')] =
                        [name |-> "run_action", part |-> op'.part, step |-> STAGE]
                  /\ Cardinality({i \in DOMAIN calls' : calls'[i].name = "run_action"}) = 1]_vars

\* the stage of a built part was refused with PartFilesConflict: the stage
\* directory does not exist and the part has no state file for STAGE
C26_Witness ==
    /\ op.name = "run_action"
    /\ op.arg.action_type = RUN
    /\ op.step = STAGE
    /\ op.result = "PartFilesConflict"
    /\ calls = <<[name |-> "check_for_stage_collisions", part |-> "", step |-> 0]>>
    /\ DOMAIN persisted[op.part] = {PULL, BUILD}
    /\ "stage" \notin dirs

----------------------------------------------------------------------------
(* C27, C28 *)

\* C27: after clean() with no part names, from any combination of existing
\* and missing prime, stage and parts directories, the prime directory does
\* not exist; the stage directory does not exist if step <= STAGE; the parts
\* directory does not exist if step <= PULL or no step was given; a
\* directory above the requested step is in place if it was before.
C27_CleanAllParts ==
    [][(op'.name = "clean" /\ op'.arg = {}) =>
          LET step == IF op'.step = 0 THEN PULL ELSE op'.step
          IN /\ "prime" \notin dirs'
             /\ step <= STAGE => "stage" \notin dirs'
             /\ step <= PULL => "parts" \notin dirs'
             /\ step > STAGE => ("stage" \in dirs' <=> "stage" \in dirs)
             /\ step > PULL => ("parts" \in dirs' <=> "parts" \in dirs)]_vars

\* C28: clean(step, part_names) with parts named calls clean_step, for each
\* selected part, once for each step from PRIME down to the requested step,
\* in descending order, and for no other step and no other part.
C28_CleanSteps ==
    (op.name = "clean" /\ op.arg # {}) =>
        LET cs == SelectSeq(calls, LAMBDA c : c.name = "clean_step")
            step == IF op.step = 0 THEN PULL ELSE op.step
            n == PRIME - step + 1
        IN /\ \A p \in op.arg, s \in step..PRIME :
                 Cardinality({i \in DOMAIN cs : cs[i].part = p /\ cs[i].step = s}) = 1
           /\ \A i \in DOMAIN cs : cs[i].part \in op.arg /\ cs[i].step >= step
           /\ \A i, j \in DOMAIN cs :
                 (i < j /\ cs[i].part = cs[j].part) => cs[i].step > cs[j].step

\* clean(BUILD, ["B"]) returned: PRIME, STAGE and BUILD of B were cleaned, in
\* this order, and nothing of A
C28_Witness ==
    /\ op.name = "clean"
    /\ op.arg = {"B"}
    /\ op.step = BUILD
    /\ SelectSeq(calls, LAMBDA c : c.name = "clean_step") =
          <<[name |-> "clean_step", part |-> "B", step |-> PRIME],
            [name |-> "clean_step", part |-> "B", step |-> STAGE],
            [name |-> "clean_step", part |-> "B", step |-> BUILD]>>
    /\ DOMAIN persisted["B"] = {PULL}
    /\ DOMAIN persisted["A"] = Steps

----------------------------------------------------------------------------
(* C29, C30 *)

\* C29: in every interleaving of the scriptlet with the polling loop, each
\* request line is answered by exactly one feedback line, the empty line
\* when the call succeeded and the error text when it failed; every feedback
\* line answers one request; when run_scriptlet is over no request is left
\* without its line.
C29_OneFeedbackPerRequest ==
    /\ \A i \in DOMAIN answers : Cardinality(answers[i].requests) = 1
    /\ \A i, j \in DOMAIN answers :
          i # j => answers[i].requests \cap answers[j].requests = {}
    /\ Terminated =>
          \A r \in 1..requests : \E i \in DOMAIN answers : r \in answers[i].requests

\* C30: run_scriptlet never waits on a FIFO: while it runs, its next step can
\* be taken whatever the FIFOs hold, also when the scriptlet reads no
\* feedback; and once the subprocess has exited or a control call has failed
\* it returns or raises.
C30_NeverDeadlocks ==
    /\ []((pc # "idle" /\ ~Terminated) => ENABLED RunnerStep)
    /\ ((pc # "idle" /\ (process # "running" \/ pc = "except")) ~> Terminated)

\* the scriptlet read no feedback, the feedback FIFO is full: the write
\* raised at once and run_scriptlet raised
C30_Witness ==
    /\ pc = "raised"
    /\ error = "BlockingIOError"
    /\ Len(feedback_fifo) = FifoCapacity
    /\ requests = MaxRequests

----------------------------------------------------------------------------
(* C31 *)

\* C31: when run_scriptlet is over and no control call failed, it raised
\* ScriptletRunError with the exit code of the subprocess if and only if the
\* subprocess exited with a code other than 0, and it returned if and only
\* if the subprocess exited with code 0.
C31_ScriptletRunError ==
    (Terminated /\ error \in {NoError, "ScriptletRunError"}) =>
        /\ process \in {"exit 0", "exit 1"}
        /\ status = process
        /\ (pc = "raised" /\ error = "ScriptletRunError") <=> process # "exit 0"
        /\ (pc = "returned" /\ error = NoError) <=> process = "exit 0"

\* the scriptlet made a control call that succeeded and exited with code 1:
\* run_scriptlet raised ScriptletRunError with code 1
C31_Witness ==
    /\ pc = "raised"
    /\ error = "ScriptletRunError"
    /\ status = "exit 1"
    /\ answers # <<>>

----------------------------------------------------------------------------
(* C32 *)

\* C32: _handle_control_api, given one message that is not valid JSON, or
\* lacks "function" or "args", or names a function other than pull, build,
\* stage and prime, raises InvalidControlAPICall and runs no built-in; given
\* a well-formed message it runs the built-in the message names and no
\* other.
C32_InvalidControlAPICall ==
    [][(pc = "handle" /\ pc' # "handle" /\ Len(function_call) = 1) =>
          LET m == function_call[1]
              well_formed == /\ m.json = "object"
                             /\ m.attrs = {"function", "args"}
                             /\ m.function \in Functions
          IN IF well_formed
             THEN /\ builtins' = Append(builtins, m.function)
                  /\ error' # "InvalidControlAPICall"
             ELSE /\ builtins' = builtins
                  /\ error' = "InvalidControlAPICall"]_vars

----------------------------------------------------------------------------
(* C33 *)

\* C33: in each of the four hooks, after any register and clear calls,
\* registering a function that is in the hook raises CallbackRegistration
\* and leaves every hook as it was, whatever the step list; registering a
\* function that is not in the hook succeeds, also when the function is in
\* another hook; clear() empties every hook, so that every function can be
\* registered again.
C33_CallbackRegistration ==
    [][/\ op'.name = "register" =>
             LET kind == op'.part
                 f == op'.arg.function
             IN IF \E i \in DOMAIN hooks[kind] : hooks[kind][i].function = f
                THEN op'.result = "CallbackRegistration" /\ hooks' = hooks
                ELSE /\ op'.result = NoError
                     /\ hooks' = [hooks EXCEPT ![kind] = Append(@, op'.arg)]
       /\ op'.name = "clear" =>
             (op'.result = NoError /\ \A k \in HookKinds : hooks'[k] = <<>>)]_vars

\* _callback_1 is a pre-step hook for PULL and BUILD and a post-step hook;
\* register_pre_step(_callback_1, step_list=[PRIME]) was refused
C33_Witness ==
    /\ op = Call("register", "pre_step", 0, CallbackHook("_callback_1", {PRIME}),
                 "CallbackRegistration")
    /\ hooks["pre_step"] = <<CallbackHook("_callback_1", {PULL, BUILD})>>
    /\ \E i \in DOMAIN hooks["post_step"] :
          hooks["post_step"][i].function = "_callback_1"

----------------------------------------------------------------------------
(* C34 *)

\* C34: for every part spec, with or without keys that start with
\* "<plugin>-", _build_part succeeds, the spec handed to the Part has no key
\* with that prefix, and every other key is in it, unchanged.
C34_PluginKeysStripped ==
    op.name = "_build_part" =>
        /\ op.result.raised = NoError
        /\ op.result.data = SelectSeq(op.arg, LAMBDA e : e.prefix # "make")

----------------------------------------------------------------------------
(* C35 *)

\* C35: after _migrate_files, for every migrated path that is a symlink in
\* the source, the destination is a symlink with the same target text,
\* whether the destination held nothing, a regular file or a symlink with
\* another target.
C35_SymlinksPreserved ==
    (op.name = "_migrate_files" /\ op.result.raised = NoError) =>
        \A f \in op.arg.files :
            (op.arg.src[f].kind = "symlink" /\ op.arg.dst[f].kind # "dir") =>
                op.result.dst[f] = op.arg.src[f]

\* C35, amended: after _migrate_files, for every migrated path that is a
\* symlink in the source: where the destination held nothing or a regular
\* file it is a symlink with the target text of the source; where the
\* destination held a symlink it is that symlink still, with the target it
\* had.
C35_SymlinksPreservedOrLeft ==
    (op.name = "_migrate_files" /\ op.result.raised = NoError) =>
        \A f \in op.arg.files :
            op.arg.src[f].kind = "symlink" =>
                /\ op.arg.dst[f].kind \in {"none", "file"} =>
                      op.result.dst[f] = op.arg.src[f]
                /\ op.arg.dst[f].kind = "symlink" =>
                      op.result.dst[f] = op.arg.dst[f]

\* hello is a symlink to t1 in the source; the destination held a regular
\* file there and a symlink to t2 at bin, where the source has a symlink to
\* t1 too: hello is now a symlink to t1, bin is the symlink to t2 still
C35_Witness ==
    /\ op.name = "_migrate_files"
    /\ op.result.raised = NoError
    /\ op.arg.src = [n \in Range(Paths) |-> Symlink("t1")]
    /\ op.arg.dst = [n \in Range(Paths) |->
                        IF n = "hello" THEN Regular("c1") ELSE Symlink("t2")]
    /\ op.result.dst = [n \in Range(Paths) |->
                           IF n = "hello" THEN Symlink("t1") ELSE Symlink("t2")]

----------------------------------------------------------------------------
(* C36 *)

\* C36: update_state_timestamp(p, s) on a stored wrapper replaces it with an
\* ephemeral wrapper that holds the same PartState and a fresh serial
\* greater than every serial issued before (a timestamp is lost), leaves the
\* wrapper of every other (part, step) unchanged and writes nothing to disk;
\* it is a no-op when (p, s) has no stored state.
C36_UpdateStateTimestamp ==
    [][op'.name = "update_state_timestamp" =>
        LET p == op'.part
            s == op'.step
        IN /\ persisted' = persisted
           /\ \A q \in DOMAIN state : \A t \in Steps :
                 <<q, t>> # <<p, s>> =>
                    /\ t \in DOMAIN state'[q] <=> t \in DOMAIN state[q]
                    /\ t \in DOMAIN state[q] => state'[q][t] = state[q][t]
           /\ IF s \in DOMAIN state[p]
              THEN /\ s \in DOMAIN state'[p]
                   /\ state'[p][s].state = state[p][s].state
                   /\ state'[p][s].timestamp = 0
                   /\ state'[p][s].serial # 0
                   /\ \A i \in DOMAIN created : created[i] < state'[p][s].serial
              ELSE /\ state' = state
                   /\ serial_gen' = serial_gen]_vars

----------------------------------------------------------------------------
(* C37 *)

\* the parts a plan() call selects: every part when none is named
SelectedParts(part_names) == IF part_names = {} THEN DOMAIN after ELSE part_names

\* C37: after reload_state() the stored state is exactly what persistence
\* holds: every (part, step) with a state file has a timestamped wrapper and
\* no wrapper with a serial or an updated flag remains; a plan() made after
\* a global clean and reload_state() emits RUN for every selected part and
\* step, and nothing else.
C37_ReloadState ==
    (op.name = "LifecycleManager.plan" /\ op.arg.changed) =>
        /\ \A p \in DOMAIN after :
              /\ DOMAIN before.state[p] = DOMAIN persisted[p]
              /\ \A s \in DOMAIN before.state[p] :
                    /\ before.state[p][s].timestamp # 0
                    /\ before.state[p][s].serial = 0
                    /\ ~before.state[p][s].updated
        /\ \A i \in DOMAIN actions : actions[i].action_type = RUN
        /\ \A p \in SelectedParts(op.arg.part_names) : \A s \in Steps :
              s <= op.step =>
                 \E i \in DOMAIN actions :
                    /\ actions[i].part_name = p
                    /\ actions[i].step = s

----------------------------------------------------------------------------
(* C38 *)

\* C38: when plan(t, P) returns, for every selected part p
\* should_step_run(p, t) is false and every step <= t of p has stored state,
\* for every part graph, every prior stored state and every order in which
\* the dependencies of a part are prepared.
C38_PostPlanConsistency ==
    op.name = "plan" =>
        LET sm == [state |-> state, serial_gen |-> serial_gen]
        IN \A p \in SelectedParts(names) :
              /\ ~should_step_run(sm, p, target)
              /\ \A s \in Steps : s <= target => has_step_run(sm, p, s)

----------------------------------------------------------------------------
(* C39 *)

\* C39: in one plan no (part, step) gets more than one RUN or RERUN action;
\* when a part has several dependencies to prepare, preparing one of them
\* does not run again the STAGE step of a dependency that an earlier
\* preparation of the same plan ran.
C39_AtMostOneExecution ==
    op.name = "plan" =>
        \A i, j \in DOMAIN actions :
            (/\ i < j
             /\ actions[i].action_type \in {RUN, RERUN}
             /\ actions[j].action_type \in {RUN, RERUN}) =>
                <<actions[i].part_name, actions[i].step>>
                    # <<actions[j].part_name, actions[j].step>>

----------------------------------------------------------------------------
(* C40 *)

\* the _add_step_actions calls of the plan just made whose action is an
\* UPDATE, or a RERUN with the outdated report as its reason
Refreshed(l, acts) ==
    {k \in DOMAIN l :
        \/ acts[l[k].idx].action_type = UPDATE
        \/ /\ acts[l[k].idx].action_type = RERUN
           /\ acts[l[k].idx].reason.text = "outdated"}

\* C40: once a plan has emitted UPDATE, or a RERUN caused by an outdated
\* report, for (p, s), the wrapper of (p, s) is marked updated, and
\* outdated_report(p, s) gives no report in every later plan() call on the
\* same StateManager, even when check() of the source handler still returns
\* true, until the wrapper is replaced by set_state, removed by clean_part
\* or the state is reloaded; so no stored state is refreshed by UPDATE more
\* than once.
C40_UpdatedOnce ==
    [][op'.name = "plan" =>
        /\ \A k \in Refreshed(log', actions') :
              /\ was_updated(log'[k].post, log'[k].part, log'[k].step)
              /\ ~was_updated(log'[k].pre, log'[k].part, log'[k].step)
        /\ \A k \in DOMAIN log' : \A p \in DOMAIN after : \A s \in Steps :
              /\ was_updated(log'[k].pre, p, s) =>
                    outdated_report(log'[k].pre, p, s) = NoOutdatedReport
              /\ (/\ was_updated(log'[k].pre, p, s)
                  /\ has_step_run(log'[k].post, p, s)
                  /\ es_get(log'[k].post, p, s).serial
                        = es_get(log'[k].pre, p, s).serial) =>
                    was_updated(log'[k].post, p, s)
        /\ \A p \in DOMAIN after : \A s \in Steps :
              (/\ was_updated([state |-> state, serial_gen |-> serial_gen], p, s)
               /\ has_step_run([state |-> state', serial_gen |-> serial_gen'], p, s)
               /\ state'[p][s].serial = state[p][s].serial) =>
                  /\ state'[p][s] = state[p][s]
                  /\ \A k \in DOMAIN log' :
                        (log'[k].part = p /\ log'[k].step = s) =>
                           actions'[log'[k].idx].action_type = SKIP]_vars

\* the source of A has changed; an earlier plan refreshed A:PULL with UPDATE
\* and the plan just made found the updated wrapper and skipped A:PULL
C40_Witness ==
    /\ op.name = "plan"
    /\ source["A"] = "changed"
    /\ was_updated(before, "A", PULL)
    /\ has_step_run([state |-> state, serial_gen |-> serial_gen], "A", PULL)
    /\ state["A"][PULL] = before.state["A"][PULL]
    /\ \E i \in DOMAIN actions : actions[i] = Action("A", PULL, SKIP, AlreadyRan)

====
